---- MODULE Spec2Model ----
(***************************************************************************)
(* QR symbol generator: the symbol object (create / addData / make /       *)
(* isDark), the codeword builder, the matrix builder, the mask selector    *)
(* and the penalty scorer, as a state machine over one symbol.             *)
(*                                                                         *)
(* Encodings used throughout:                                              *)
(*   - a grid is a sequence of rows, a row a sequence of cells; the cell   *)
(*     (row, col) of the source is grid[row + 1][col + 1];  cells are      *)
(*     1 (true, dark), 0 (false, light) and -1 (null, unassigned);         *)
(*   - the null grid and the null encoded-data cache are the empty         *)
(*     sequence (a built grid has at least 21 rows, a codeword stream at   *)
(*     least 26 bytes);                                                    *)
(*   - a string is the sequence of its UTF-16 code units;                  *)
(*   - a bit buffer is the sequence of the bits written so far, so that    *)
(*     getLengthInBits() is Len and getBuffer() is BufferBytes;            *)
(*   - a thrown error is the error name left in lastError.                 *)
(***************************************************************************)
EXTENDS Integers, Sequences, FiniteSets, Bags, TLC

VARIABLES
  createdTypeNumber,   \* typeNumber argument of create() (history)
  currentTypeNumber,   \* QRCode.create: currentTypeNumber
  errorLevel,          \* QRCode.create: errorCorrectionLevelValue
  dataSegmentList,     \* QRCode.create: dataSegmentList
  encodedDataCache,    \* QRCode.create: encodedDataCache
  moduleGrid,          \* QRCode.create: moduleGrid
  moduleCountValue,    \* QRCode.create: moduleCountValue
  lastOp,              \* the operation that ran last
  lastError,           \* the error it threw, or "none"
  readArgs,            \* arguments of the last isDark call
  readResult,          \* its return value
  committedMask,       \* mask pattern of the last final build (history)
  trialParts,          \* score parts of the last eight trial grids (history)
  madeSegments,        \* segment counts at the last two successful make() (history)
  returnedData,        \* codewords the last Encode.createData call returned
  exponentTable,       \* Math.exponentTable (static), entry i at index i + 1
  logarithmTable,      \* Math.logarithmTable (static), entry x at index x
  callArgs,            \* arguments of the last call that records them
  callResult,          \* the value that call returned
  bitBuffer,           \* a Buffer object: its byte array and its bit length
  writtenBits          \* the bits written to bitBuffer, in order (history)

\* the static tables of Math: filled once by the static block, read-only after
tables == <<exponentTable, logarithmTable>>

\* the Buffer object a client fills on its own, with the bits it was given
buffers == <<bitBuffer, writtenBits>>

vars == <<createdTypeNumber, currentTypeNumber, errorLevel, dataSegmentList,
          encodedDataCache, moduleGrid, moduleCountValue, lastOp, lastError,
          readArgs, readResult, committedMask, trialParts, madeSegments,
          returnedData, tables, callArgs, callResult, buffers>>

----------------------------------------------------------------------------
(* Bounds of the model *)

\* longest segment list a symbol is given
MaxSegments == 2
\* length of the long byte text (one more byte than version 40-L holds)
BigLen == 2954
\* length of the middle byte text (version 10-H holds two bytes more, were its
\* length field the 8 bits of version 9)
MidLen == 120

----------------------------------------------------------------------------
(* Global.ts *)

MODE_NUMBER == 1
MODE_ALPHA_NUM == 2
MODE_8BIT_BYTE == 4
MODE_KANJI == 8

\* Global.QRError: level name -> index
QRError == [L |-> 1, M |-> 0, Q |-> 3, H |-> 2]

NullCache == <<>>
NullGrid == <<>>

----------------------------------------------------------------------------
(* Integer helpers for the bit operators of the source *)

Pow2(n) == 2 ^ n

RECURSIVE Xor(_, _)
\* a ^ b on non-negative integers
Xor(a, b) ==
  IF a = 0 THEN b
  ELSE IF b = 0 THEN a
  ELSE LET bit(k) == (((a \div Pow2(k)) + (b \div Pow2(k))) % 2) * Pow2(k)
       IN bit(0) + bit(1) + bit(2) + bit(3) + bit(4) + bit(5) + bit(6) + bit(7)
            + 256 * Xor(a \div 256, b \div 256)

\* (value >>> k) & 1
BitAt(value, k) == (value \div Pow2(k)) % 2

RECURSIVE SumTo(_, _, _)
\* sum of F(i) for i = a..b: an accumulating for-loop, the range halved at
\* each level of the recursion
SumTo(F(_), a, b) ==
  IF a > b THEN 0
  ELSE IF a = b THEN F(a)
  ELSE SumTo(F, a, (a + b) \div 2) + SumTo(F, ((a + b) \div 2) + 1, b)

Max(a, b) == IF a > b THEN a ELSE b

----------------------------------------------------------------------------
(* Buffer *)

\* Buffer.put: the bits put(numericValue, bitLength) appends, high bit first
Put(numericValue, bitLength) ==
  [i \in 1..bitLength |-> BitAt(numericValue, bitLength - i)]

\* Buffer.getBuffer: the bytes putBit has packed, bit i at 0x80 >>> (i % 8)
BufferBytes(bits) ==
  [k \in 1..((Len(bits) + 7) \div 8) |->
     SumTo(LAMBDA j: IF 8 * (k - 1) + j + 1 <= Len(bits)
                     THEN bits[8 * (k - 1) + j + 1] * Pow2(7 - j) ELSE 0, 0, 7)]

\* An unsigned 32-bit value of the source is the pair <<high, low>> of its
\* 16-bit halves.
Word(value) == <<value \div 65536, value % 65536>>

\* (value >>> k) & 1 for a 32-bit value: the shift count is taken modulo 32
WordBit(word, k) ==
  IF k % 32 < 16 THEN (word[2] \div Pow2(k % 32)) % 2
  ELSE (word[1] \div Pow2((k % 32) - 16)) % 2

RECURSIVE BitOr(_, _)
\* a | b on non-negative integers
BitOr(a, b) ==
  IF a = 0 THEN b
  ELSE IF b = 0 THEN a
  ELSE LET bit(k) == IF (a \div Pow2(k)) % 2 = 1 \/ (b \div Pow2(k)) % 2 = 1
                     THEN Pow2(k) ELSE 0
       IN bit(0) + bit(1) + bit(2) + bit(3) + bit(4) + bit(5) + bit(6) + bit(7)
            + 256 * BitOr(a \div 256, b \div 256)

\* Buffer.create: the fields of a new Buffer
BufferCreate == [bitByteBuffer |-> <<>>, lengthInBits |-> 0]

\* fault: the bit is stored from the low end of its byte
putBitLowFirst(buffer, bitValue) ==
  LET byteIndex == buffer.lengthInBits \div 8
      stored(bytes) ==
        IF bitValue
        THEN [bytes EXCEPT ![byteIndex + 1] =
                BitOr(@, 128 \div Pow2(7 - (buffer.lengthInBits % 8)))]
        ELSE bytes
  IN [bitByteBuffer |-> stored(IF Len(buffer.bitByteBuffer) <= byteIndex
                               THEN Append(buffer.bitByteBuffer, 0)
                               ELSE buffer.bitByteBuffer),
      lengthInBits |-> buffer.lengthInBits + 1]

\* Buffer.putBit
putBit(buffer, bitValue) ==
  LET byteIndex == buffer.lengthInBits \div 8
      stored(bytes) ==
        IF bitValue
        THEN [bytes EXCEPT ![byteIndex + 1] =
                BitOr(@, 128 \div Pow2(buffer.lengthInBits % 8))]
        ELSE bytes
  IN [bitByteBuffer |-> stored(IF Len(buffer.bitByteBuffer) <= byteIndex
                               THEN Append(buffer.bitByteBuffer, 0)
                               ELSE buffer.bitByteBuffer),
      lengthInBits |-> buffer.lengthInBits + 1]

RECURSIVE PutLoop(_, _, _, _, _)
\* the loop of Buffer.put for the iterations from..(to - 1), the range halved
\* at each level of the recursion; numericValue is a 32-bit pair
PutLoop(buffer, numericValue, bitLength, from, to) ==
  IF to <= from \/ buffer.lengthInBits < 0 THEN buffer
  ELSE IF to - from = 1
  THEN putBit(buffer, WordBit(numericValue, bitLength - from - 1) = 1)
  ELSE PutLoop(PutLoop(buffer, numericValue, bitLength, from, (from + to) \div 2),
               numericValue, bitLength, (from + to) \div 2, to)

\* Buffer.put; numericValue is a 32-bit pair
put(buffer, numericValue, bitLength) ==
  PutLoop(buffer, numericValue, bitLength, 0, bitLength)

\* Buffer.getAt
getAt(buffer, index) ==
  LET byteIndex == index \div 8
  IN IF byteIndex + 1 > Len(buffer.bitByteBuffer) THEN FALSE
     ELSE (buffer.bitByteBuffer[byteIndex + 1] \div Pow2(7 - (index % 8))) % 2 = 1

\* Buffer.getBuffer
getBuffer(buffer) == buffer.bitByteBuffer

----------------------------------------------------------------------------
(* Math: GF(256) tables and polynomials *)

RECURSIVE BuildExponentTable(_, _)
\* the first two loops of the static block, filling exponentTable[Len(tab)]
\* to exponentTable[size - 1]; the range is halved at each level
BuildExponentTable(tab, size) ==
  IF Len(tab) >= size THEN tab
  ELSE IF size - Len(tab) = 1
  THEN LET i == Len(tab) IN
       Append(tab,
         IF i < 8 THEN Pow2(i)
         ELSE Xor(Xor(tab[i - 4 + 1], tab[i - 5 + 1]),
                  Xor(tab[i - 6 + 1], tab[i - 8 + 1])))
  ELSE BuildExponentTable(BuildExponentTable(tab, (Len(tab) + size) \div 2), size)

\* exponentTable[0..255]
StaticExponentTable == BuildExponentTable(<<>>, 256)

\* fault: the third loop also visits exponentTable[255]
StaticLogarithmTableThrough255(exponents) ==
  [x \in 1..255 |->
     CHOOSE i \in 0..255 : exponents[i + 1] = x
       /\ \A j \in (i + 1)..255 : exponents[j + 1] # x] \o <<>>

\* the third loop of the static block: logarithmTable[exponents[i]] = i for
\* i = 0..254 in order, so that entry x keeps the last i with exponents[i] = x
StaticLogarithmTable(exponents) ==
  [x \in 1..255 |->
     CHOOSE i \in 0..254 :
       /\ exponents[i + 1] = x
       /\ \A j \in (i + 1)..254 : exponents[j + 1] # x] \o <<>>

RECURSIVE WrapExponent(_)
WrapExponent(n) ==
  IF n < 0 THEN WrapExponent(n + 255)
  ELSE IF n >= 256 THEN WrapExponent(n - 255)
  ELSE n

\* Math.galoisExp
galoisExp(exponentValue) == exponentTable[WrapExponent(exponentValue) + 1]

\* Math.galoisLog; the error of the source (fieldElement < 1) is -1
galoisLog(fieldElement) ==
  IF fieldElement < 1 \/ fieldElement > 255 THEN -1 ELSE logarithmTable[fieldElement]

RECURSIVE LeadingZeros(_, _)
LeadingZeros(coefficients, offset) ==
  IF offset < Len(coefficients) /\ coefficients[offset + 1] = 0
  THEN LeadingZeros(coefficients, offset + 1)
  ELSE offset

\* fault: the constructor keeps the leading zero coefficients
PolynomialKeepingZeros(coefficients, shiftAmount) ==
  coefficients \o [i \in 1..shiftAmount |-> 0]

\* Math.Polynomial constructor
Polynomial(coefficients, shiftAmount) ==
  LET offset == LeadingZeros(coefficients, 0)
      dataLength == Len(coefficients) - offset
  IN IF dataLength = 0 THEN <<0>>
     ELSE SubSeq(coefficients, offset + 1, Len(coefficients))
            \o [i \in 1..shiftAmount |-> 0]

RECURSIVE XorOver(_, _, _)
XorOver(F(_), a, b) ==
  IF a > b THEN 0
  ELSE IF a = b THEN F(a)
  ELSE Xor(XorOver(F, a, (a + b) \div 2), XorOver(F, ((a + b) \div 2) + 1, b))

\* Math.Polynomial.multiply: coefficient k (1-based) collects the terms of
\* the pairs (i, j) with i + j = k + 1.  The loops take galoisLog of every
\* coefficient of both polynomials; <<>> is the error it throws for one
\* that is no field element above 0.
PolyMultiply(p, q) ==
  LET productLength == Len(p) + Len(q) - 1
      coefficient(k) ==
        XorOver(LAMBDA i: galoisExp(galoisLog(p[i]) + galoisLog(q[k - i + 1])),
                Max(1, k - Len(q) + 1), IF k < Len(p) THEN k ELSE Len(p))
  IN IF \/ \E i \in 1..Len(p) : galoisLog(p[i]) = -1
        \/ \E j \in 1..Len(q) : galoisLog(q[j]) = -1
     THEN <<>>
     ELSE Polynomial([k \in 1..productLength |-> coefficient(k)] \o <<>>, 0)

\* Math.Polynomial.mod: one division step, or the polynomial itself once
\* mod returns it
ModStep(p, divisor) ==
  IF Len(p) - Len(divisor) < 0 THEN p
  ELSE IF p[1] = 0 THEN p
  ELSE LET ratio == galoisLog(p[1]) - galoisLog(divisor[1])
           remainderCoefficients ==
             [i \in 1..Len(p) |->
                IF i <= Len(divisor)
                THEN Xor(p[i], galoisExp(galoisLog(divisor[i]) + ratio))
                ELSE p[i]] \o <<>>
       IN Polynomial(remainderCoefficients, 0)

RECURSIVE ModSteps(_, _, _)
\* Math.Polynomial.mod: so many division steps, the count halved at each
\* level of the recursion
ModSteps(p, divisor, steps) ==
  IF steps <= 0 \/ Len(p) - Len(divisor) < 0 THEN p
  ELSE IF steps = 1 THEN ModStep(p, divisor)
  ELSE ModSteps(ModSteps(p, divisor, steps \div 2), divisor, steps - (steps \div 2))

\* Math.Polynomial.mod: every division step shortens the polynomial, so that
\* the recursion of the source ends within Len(p) - Len(divisor) + 1 steps
PolyMod(p, divisor) == ModSteps(p, divisor, Len(p) - Len(divisor) + 1)

RECURSIVE ErrorCorrectLoop(_, _, _)
\* the loop of getErrorCorrectPolynomial for i in from..(to - 1); the range is
\* halved at each level of the recursion
ErrorCorrectLoop(resultPolynomial, from, to) ==
  IF to <= from \/ Len(resultPolynomial) = 0 THEN resultPolynomial
  ELSE IF to - from = 1
  THEN PolyMultiply(resultPolynomial, Polynomial(<<1, galoisExp(from)>>, 0))
  ELSE ErrorCorrectLoop(ErrorCorrectLoop(resultPolynomial, from, (from + to) \div 2),
                        (from + to) \div 2, to)

\* Util.getErrorCorrectPolynomial
getErrorCorrectPolynomial(errorCorrectLength) ==
  ErrorCorrectLoop(Polynomial(<<1>>, 0), 0, errorCorrectLength)

----------------------------------------------------------------------------
(* Block: the RS block layout table (the standard table of ISO/IEC 18004, *)
(* four entries per version in the order L, M, Q, H; an entry is a list   *)
(* of (count, totalCount, dataCount) triples)                             *)

RS_BLOCK_TABLE == <<
   <<1,26,19>>, <<1,26,16>>, <<1,26,13>>, <<1,26,9>>,
   <<1,44,34>>, <<1,44,28>>, <<1,44,22>>, <<1,44,16>>,
   <<1,70,55>>, <<1,70,44>>, <<2,35,17>>, <<2,35,13>>,
   <<1,100,80>>, <<2,50,32>>, <<2,50,24>>, <<4,25,9>>,
   <<1,134,108>>, <<2,67,43>>, <<2,33,15,2,34,16>>, <<2,33,11,2,34,12>>,
   <<2,86,68>>, <<4,43,27>>, <<4,43,19>>, <<4,43,15>>,
   <<2,98,78>>, <<4,49,31>>, <<2,32,14,4,33,15>>, <<4,39,13,1,40,14>>,
   <<2,121,97>>, <<2,60,38,2,61,39>>, <<4,40,18,2,41,19>>, <<4,40,14,2,41,15>>,
   <<2,146,116>>, <<3,58,36,2,59,37>>, <<4,36,16,4,37,17>>, <<4,36,12,4,37,13>>,
   <<2,86,68,2,87,69>>, <<4,69,43,1,70,44>>, <<6,43,19,2,44,20>>, <<6,43,15,2,44,16>>,
   <<4,101,81>>, <<1,80,50,4,81,51>>, <<4,50,22,4,51,23>>, <<3,36,12,8,37,13>>,
   <<2,116,92,2,117,93>>, <<6,58,36,2,59,37>>, <<4,46,20,6,47,21>>, <<7,42,14,4,43,15>>,
   <<4,133,107>>, <<8,59,37,1,60,38>>, <<8,44,20,4,45,21>>, <<12,33,11,4,34,12>>,
   <<3,145,115,1,146,116>>, <<4,64,40,5,65,41>>, <<11,36,16,5,37,17>>, <<11,36,12,5,37,13>>,
   <<5,109,87,1,110,88>>, <<5,65,41,5,66,42>>, <<5,54,24,7,55,25>>, <<11,36,12,7,37,13>>,
   <<5,122,98,1,123,99>>, <<7,73,45,3,74,46>>, <<15,43,19,2,44,20>>, <<3,45,15,13,46,16>>,
   <<1,135,107,5,136,108>>, <<10,74,46,1,75,47>>, <<1,50,22,15,51,23>>, <<2,42,14,17,43,15>>,
   <<5,150,120,1,151,121>>, <<9,69,43,4,70,44>>, <<17,50,22,1,51,23>>, <<2,42,14,19,43,15>>,
   <<3,141,113,4,142,114>>, <<3,70,44,11,71,45>>, <<17,47,21,4,48,22>>, <<9,39,13,16,40,14>>,
   <<3,135,107,5,136,108>>, <<3,67,41,13,68,42>>, <<15,54,24,5,55,25>>, <<15,43,15,10,44,16>>,
   <<4,144,116,4,145,117>>, <<17,68,42>>, <<17,50,22,6,51,23>>, <<19,46,16,6,47,17>>,
   <<2,139,111,7,140,112>>, <<17,74,46>>, <<7,54,24,16,55,25>>, <<34,37,13>>,
   <<4,151,121,5,152,122>>, <<4,75,47,14,76,48>>, <<11,54,24,14,55,25>>, <<16,45,15,14,46,16>>,
   <<6,147,117,4,148,118>>, <<6,73,45,14,74,46>>, <<11,54,24,16,55,25>>, <<30,46,16,2,47,17>>,
   <<8,132,106,4,133,107>>, <<8,75,47,13,76,48>>, <<7,54,24,22,55,25>>, <<22,45,15,13,46,16>>,
   <<10,142,114,2,143,115>>, <<19,74,46,4,75,47>>, <<28,50,22,6,51,23>>, <<33,46,16,4,47,17>>,
   <<8,152,122,4,153,123>>, <<22,73,45,3,74,46>>, <<8,53,23,26,54,24>>, <<12,45,15,28,46,16>>,
   <<3,147,117,10,148,118>>, <<3,73,45,23,74,46>>, <<4,54,24,31,55,25>>, <<11,45,15,31,46,16>>,
   <<7,146,116,7,147,117>>, <<21,73,45,7,74,46>>, <<1,53,23,37,54,24>>, <<19,45,15,26,46,16>>,
   <<5,145,115,10,146,116>>, <<19,75,47,10,76,48>>, <<15,54,24,25,55,25>>, <<23,45,15,25,46,16>>,
   <<13,145,115,3,146,116>>, <<2,74,46,29,75,47>>, <<42,54,24,1,55,25>>, <<23,45,15,28,46,16>>,
   <<17,145,115>>, <<10,74,46,23,75,47>>, <<10,54,24,35,55,25>>, <<19,45,15,35,46,16>>,
   <<17,145,115,1,146,116>>, <<14,74,46,21,75,47>>, <<29,54,24,19,55,25>>, <<11,45,15,46,46,16>>,
   <<13,145,115,6,146,116>>, <<14,74,46,23,75,47>>, <<44,54,24,7,55,25>>, <<59,46,16,1,47,17>>,
   <<12,151,121,7,152,122>>, <<12,75,47,26,76,48>>, <<39,54,24,14,55,25>>, <<22,45,15,41,46,16>>,
   <<6,151,121,14,152,122>>, <<6,75,47,34,76,48>>, <<46,54,24,10,55,25>>, <<2,45,15,64,46,16>>,
   <<17,152,122,4,153,123>>, <<29,74,46,14,75,47>>, <<49,54,24,10,55,25>>, <<24,45,15,46,46,16>>,
   <<4,152,122,18,153,123>>, <<13,74,46,32,75,47>>, <<48,54,24,14,55,25>>, <<42,45,15,32,46,16>>,
   <<20,147,117,4,148,118>>, <<40,75,47,7,76,48>>, <<43,54,24,22,55,25>>, <<10,45,15,67,46,16>>,
   <<19,148,118,6,149,119>>, <<18,75,47,31,76,48>>, <<34,54,24,34,55,25>>, <<20,45,15,61,46,16>>>>

\* column of the table for a level index (L = 1, M = 0, Q = 3, H = 2)
LevelOffset(errorCorrectionLevel) ==
  CASE errorCorrectionLevel = 1 -> 0
    [] errorCorrectionLevel = 0 -> 1
    [] errorCorrectionLevel = 3 -> 2
    [] errorCorrectionLevel = 2 -> 3

RECURSIVE ExpandBlocks(_, _)
ExpandBlocks(entry, i) ==
  IF i > Len(entry) THEN <<>>
  ELSE [k \in 1..entry[i] |-> [totalCount |-> entry[i + 1], dataCount |-> entry[i + 2]]]
         \o ExpandBlocks(entry, i + 3)

\* Block.getRSBlocks
getRSBlocks(typeNumber, errorCorrectionLevel) ==
  ExpandBlocks(RS_BLOCK_TABLE[(typeNumber - 1) * 4 + LevelOffset(errorCorrectionLevel) + 1], 1)

\* totalDataCount of createData and make: the sum of dataCount over the layout
TotalDataCount(rsBlocks) == SumTo(LAMBDA i: rsBlocks[i].dataCount, 1, Len(rsBlocks))

----------------------------------------------------------------------------
(* Util: tables *)

\* Util.getLengthInBits; 0 stands for the thrown error
getLengthInBits(mode, typeNumber) ==
  IF 1 <= typeNumber /\ typeNumber < 10 THEN
    CASE mode = MODE_NUMBER -> 10
      [] mode = MODE_ALPHA_NUM -> 9
      [] mode = MODE_8BIT_BYTE -> 8
      [] mode = MODE_KANJI -> 8
      [] OTHER -> 0
  ELSE IF typeNumber < 27 THEN
    CASE mode = MODE_NUMBER -> 12
      [] mode = MODE_ALPHA_NUM -> 11
      [] mode = MODE_8BIT_BYTE -> 16
      [] mode = MODE_KANJI -> 10
      [] OTHER -> 0
  ELSE IF typeNumber < 41 THEN
    CASE mode = MODE_NUMBER -> 14
      [] mode = MODE_ALPHA_NUM -> 13
      [] mode = MODE_8BIT_BYTE -> 16
      [] mode = MODE_KANJI -> 12
      [] OTHER -> 0
  ELSE 0

\* Util.patternPositionTable
patternPositionTable == <<
  <<>>, <<6, 18>>, <<6, 22>>, <<6, 26>>, <<6, 30>>, <<6, 34>>,
  <<6, 22, 38>>, <<6, 24, 42>>, <<6, 26, 46>>, <<6, 28, 50>>,
  <<6, 30, 54>>, <<6, 32, 58>>, <<6, 34, 62>>, <<6, 26, 46, 66>>,
  <<6, 26, 48, 70>>, <<6, 26, 50, 74>>, <<6, 30, 54, 78>>,
  <<6, 30, 56, 82>>, <<6, 30, 58, 86>>, <<6, 34, 62, 90>>,
  <<6, 28, 50, 72, 94>>, <<6, 26, 50, 74, 98>>, <<6, 30, 54, 78, 102>>,
  <<6, 28, 54, 80, 106>>, <<6, 32, 58, 84, 110>>, <<6, 30, 58, 86, 114>>,
  <<6, 34, 62, 90, 118>>, <<6, 26, 50, 74, 98, 122>>,
  <<6, 30, 54, 78, 102, 126>>, <<6, 26, 52, 78, 104, 130>>,
  <<6, 30, 56, 82, 108, 134>>, <<6, 34, 60, 86, 112, 138>>,
  <<6, 30, 58, 86, 114, 142>>, <<6, 34, 62, 90, 118, 146>>,
  <<6, 30, 54, 78, 102, 126, 150>>, <<6, 24, 50, 76, 102, 128, 154>>,
  <<6, 28, 54, 80, 106, 132, 158>>, <<6, 32, 58, 84, 110, 136, 162>>,
  <<6, 26, 54, 82, 110, 138, 166>>, <<6, 30, 58, 86, 114, 142, 170>> >>

\* Util.getPatternPosition
getPatternPosition(typeNumber) == patternPositionTable[typeNumber]

\* Util.bchGeneratorTypeInfo: bits 10, 8, 5, 4, 2, 1, 0
bchGeneratorTypeInfo == 1335
\* Util.bchGeneratorTypeNumber: bits 12, 11, 10, 9, 8, 5, 2, 0
bchGeneratorTypeNumber == 7973
\* Util.bchTypeInfoMask: bits 14, 12, 10, 4, 1
bchTypeInfoMask == 21522

RECURSIVE getBCHDigit(_)
\* Util.getBCHDigit
getBCHDigit(inputValue) ==
  IF inputValue = 0 THEN 0 ELSE 1 + getBCHDigit(inputValue \div 2)

RECURSIVE BCHRemainder(_, _)
\* the while loop of getBCHTypeInfo / getBCHTypeNumber
BCHRemainder(encodedValue, generator) ==
  IF getBCHDigit(encodedValue) - getBCHDigit(generator) >= 0
  THEN BCHRemainder(
         Xor(encodedValue,
             generator * Pow2(getBCHDigit(encodedValue) - getBCHDigit(generator))),
         generator)
  ELSE encodedValue

\* fault: the format bits without the mask
getBCHTypeInfoUnmasked(data) ==
  data * 1024 + BCHRemainder(data * 1024, bchGeneratorTypeInfo)

\* Util.getBCHTypeInfo  ((data << 10) | remainder) ^ mask; the remainder is
\* below 2^10, so | is +
getBCHTypeInfo(data) ==
  Xor(data * 1024 + BCHRemainder(data * 1024, bchGeneratorTypeInfo), bchTypeInfoMask)

\* Util.getBCHTypeNumber
getBCHTypeNumber(data) ==
  data * 4096 + BCHRemainder(data * 4096, bchGeneratorTypeNumber)

\* Util.maskPatternRegistry / Util.getMaskFunction
maskFunction(maskPattern, rowIndex, colIndex) ==
  CASE maskPattern = 0 -> (rowIndex + colIndex) % 2 = 0
    [] maskPattern = 1 -> rowIndex % 2 = 0
    [] maskPattern = 2 -> colIndex % 3 = 0
    [] maskPattern = 3 -> (rowIndex + colIndex) % 3 = 0
    [] maskPattern = 4 -> ((rowIndex \div 2) + (colIndex \div 3)) % 2 = 0
    [] maskPattern = 5 -> ((rowIndex * colIndex) % 2) + ((rowIndex * colIndex) % 3) = 0
    [] maskPattern = 6 ->
         (((rowIndex * colIndex) % 2) + ((rowIndex * colIndex) % 3)) % 2 = 0
    [] maskPattern = 7 ->
         (((rowIndex * colIndex) % 3) + ((rowIndex + colIndex) % 2)) % 2 = 0

----------------------------------------------------------------------------
(* Byte.stringToBytes (UTF-8) *)

\* a UTF-16 surrogate code unit: the last branch of the loop
IsSurrogate(codePoint) == 55296 <= codePoint /\ codePoint < 57344

\* the loop reaches index i (1-based) unless the iteration before it consumed
\* it as the second unit of a pair: i is reached iff the run of surrogate
\* units that ends at i - 1 has even length
LoopVisits(inputString, i) ==
  IF i = 1 \/ ~IsSurrogate(inputString[i - 1]) THEN TRUE
  ELSE LET runStart == CHOOSE j \in 1..(i - 1) :
                         /\ \A k \in j..(i - 1) : IsSurrogate(inputString[k])
                         /\ (j = 1 \/ ~IsSurrogate(inputString[j - 1]))
       IN (i - runStart) % 2 = 0

\* the UTF-8 octets one loop iteration pushes for the code unit at index i
Utf8Step(inputString, i) ==
  LET codePoint == inputString[i] IN
  IF codePoint < 128 THEN <<codePoint>>
  ELSE IF codePoint < 2048 THEN
    <<192 + (codePoint \div 64), 128 + (codePoint % 64)>>
  ELSE IF ~IsSurrogate(codePoint) THEN
    <<224 + (codePoint \div 4096), 128 + ((codePoint \div 64) % 64), 128 + (codePoint % 64)>>
  ELSE
    LET low == IF i + 1 <= Len(inputString) THEN inputString[i + 1] % 1024 ELSE 0
        pair == 65536 + ((codePoint % 1024) * 1024 + low)
    IN <<240 + (pair \div 262144), 128 + ((pair \div 4096) % 64),
         128 + ((pair \div 64) % 64), 128 + (pair % 64)>>

\* Byte.stringToBytes
stringToBytes(inputString) ==
  LET slots == [k \in 1..(4 * Len(inputString)) |->
                  LET i == ((k - 1) \div 4) + 1
                      j == ((k - 1) % 4) + 1
                  IN IF LoopVisits(inputString, i) /\ j <= Len(Utf8Step(inputString, i))
                     THEN Utf8Step(inputString, i)[j] ELSE -1]
  IN SelectSeq(slots, LAMBDA x: x >= 0)

----------------------------------------------------------------------------
(* Encode: segments *)

\* Encode.alphaNum: getAlphanumericCodeForChar; -1 is the thrown error
getAlphanumericCodeForChar(singleChar) ==
  IF 48 <= singleChar /\ singleChar <= 57 THEN singleChar - 48
  ELSE IF 65 <= singleChar /\ singleChar <= 90 THEN singleChar - 65 + 10
  ELSE CASE singleChar = 32 -> 36
         [] singleChar = 36 -> 37
         [] singleChar = 37 -> 38
         [] singleChar = 42 -> 39
         [] singleChar = 43 -> 40
         [] singleChar = 45 -> 41
         [] singleChar = 46 -> 42
         [] singleChar = 47 -> 43
         [] singleChar = 58 -> 44
         [] OTHER -> -1

\* Encode.number: parseDigitChar; -1 is the thrown error
parseDigitChar(singleChar) ==
  IF 48 <= singleChar /\ singleChar <= 57 THEN singleChar - 48 ELSE -1

\* Encode.number: parseDigitGroupToNumber over inputText[from..from+count-1]
parseDigitGroupToNumber(inputText, from, count) ==
  LET Acc[i \in 0..count] ==
        IF i = 0 THEN 0 ELSE Acc[i - 1] * 10 + parseDigitChar(inputText[from + i - 1])
  IN Acc[count]

\* the property names every plain object inherits from Object.prototype: a
\* lookup object[name] and a test  name in object  find them besides the
\* object's own keys
ObjectPrototypeKeys ==
  {"constructor", "toString", "toLocaleString", "valueOf", "hasOwnProperty",
   "isPrototypeOf", "propertyIsEnumerable", "__proto__", "__defineGetter__",
   "__defineSetter__", "__lookupGetter__", "__lookupSetter__"}

\* the own keys of encoderRegistry
EncoderNames == {"Alphanumeric", "Byte", "Kanji", "Numeric"}

\* encoderRegistry[mode] !== undefined: the lookup finds an own strategy or an
\* inherited member
HasStrategy(mode) == mode \in EncoderNames \/ mode \in ObjectPrototypeKeys

\* strategy(data, stringToBytes) for a member inherited from Object.prototype,
\* called without a receiver: Object.prototype.toString answers
\* "[object Undefined]", Object wraps the text, isPrototypeOf answers false,
\* every other member throws a TypeError; the value returned is not a segment
InheritedStrategy(data, mode) ==
  CASE mode = "toString" ->
         [error |-> "none", segment |-> [notSegment |-> "[object Undefined]"]]
    [] mode = "constructor" ->
         [error |-> "none", segment |-> [notSegment |-> data]]
    [] mode = "isPrototypeOf" ->
         [error |-> "none", segment |-> [notSegment |-> FALSE]]
    [] OTHER -> [error |-> "TypeError", segment |-> [notSegment |-> <<>>]]

\* Encode.encode: the segment addData stores, or the error thrown.  A segment
\* keeps its mode and its captured input: the text for Numeric and
\* Alphanumeric, the encoded bytes for Byte and Kanji.
encode(data, mode) ==
  IF ~HasStrategy(mode)
  THEN [error |-> "BadMode", segment |-> [mode |-> 0, data |-> <<>>]]
  ELSE CASE mode = "Alphanumeric" ->
              [error |-> "none", segment |-> [mode |-> MODE_ALPHA_NUM, data |-> data]]
         [] mode = "Byte" ->
              [error |-> "none",
               segment |-> [mode |-> MODE_8BIT_BYTE, data |-> stringToBytes(data)]]
         [] mode = "Kanji" ->
              [error |-> "none",
               segment |-> [mode |-> MODE_KANJI, data |-> stringToBytes(data)]]
         [] mode = "Numeric" ->
              [error |-> "none", segment |-> [mode |-> MODE_NUMBER, data |-> data]]
         [] OTHER -> InheritedStrategy(data, mode)

\* QRDataSegment.getLength
getLength(segment) ==
  IF segment.mode = MODE_KANJI THEN Len(segment.data) \div 2 ELSE Len(segment.data)

\* Encode.kanji write: the 13-bit value of the byte pair at offset k (0-based
\* pair index), or -1 when the code point is outside both ranges
KanjiValue(encodedByteList, k) ==
  LET p == (encodedByteList[2 * k + 1] % 256) * 256 + (encodedByteList[2 * k + 2] % 256)
      q == IF 33088 <= p /\ p <= 40956 THEN p - 33088
           ELSE IF 57408 <= p /\ p <= 60351 THEN p - 49472
           ELSE -1
  IN IF q = -1 THEN -1 ELSE ((q \div 256) % 256) * 192 + (q % 256)

\* Encode.number write: whether parseDigitChar throws, in one of the groups
\* of three of the while loop or in the group of the remaining one or two
NumberWriteThrows(inputText) ==
  \/ \E group \in 0..((Len(inputText) \div 3) - 1), i \in 1..3 :
        parseDigitChar(inputText[3 * group + i]) = -1
  \/ \E i \in 1..(Len(inputText) % 3) :
        parseDigitChar(inputText[3 * (Len(inputText) \div 3) + i]) = -1

\* Encode.alphaNum write: whether getAlphanumericCodeForChar throws, in one of
\* the pairs of the while loop or at the odd last character
AlphaNumWriteThrows(inputText) ==
  \/ \E pair \in 0..((Len(inputText) \div 2) - 1), i \in 1..2 :
        getAlphanumericCodeForChar(inputText[2 * pair + i]) = -1
  \/ /\ Len(inputText) % 2 = 1
     /\ getAlphanumericCodeForChar(inputText[Len(inputText)]) = -1

\* fault: the characters after the last full group or pair are written unchecked
WriteErrorFullGroupsOnly(segment) ==
  LET d == segment.data
      n == Len(d)
  IN CASE segment.mode = MODE_NUMBER ->
            IF \E group \in 0..((n \div 3) - 1), i \in 1..3 :
                 parseDigitChar(d[3 * group + i]) = -1
            THEN "BadCharacter" ELSE "none"
       [] segment.mode = MODE_ALPHA_NUM ->
            IF \E pair \in 0..((n \div 2) - 1), i \in 1..2 :
                 getAlphanumericCodeForChar(d[2 * pair + i]) = -1
            THEN "BadCharacter" ELSE "none"
       [] segment.mode = MODE_8BIT_BYTE -> "none"
       [] segment.mode = MODE_KANJI ->
            IF (\E k \in 0..((n \div 2) - 1) : KanjiValue(d, k) = -1) \/ n % 2 = 1
            THEN "BadKanji" ELSE "none"

\* QRDataSegment.write: the error the write raises, or "none"
WriteError(segment) ==
  LET d == segment.data
      n == Len(d)
  IN CASE segment.mode = MODE_NUMBER ->
            IF NumberWriteThrows(d) THEN "BadCharacter" ELSE "none"
       [] segment.mode = MODE_ALPHA_NUM ->
            IF AlphaNumWriteThrows(d) THEN "BadCharacter" ELSE "none"
       [] segment.mode = MODE_8BIT_BYTE -> "none"
       [] segment.mode = MODE_KANJI ->
            IF (\E k \in 0..((n \div 2) - 1) : KanjiValue(d, k) = -1) \/ n % 2 = 1
            THEN "BadKanji" ELSE "none"

\* fault: the odd last character of an alphanumeric text takes 4 bits
WriteLengthShortTail(segment) ==
  LET n == Len(segment.data)
  IN CASE segment.mode = MODE_NUMBER ->
            10 * (n \div 3) + (IF n % 3 = 1 THEN 4 ELSE IF n % 3 = 2 THEN 7 ELSE 0)
       [] segment.mode = MODE_ALPHA_NUM -> 11 * (n \div 2) + 4 * (n % 2)
       [] segment.mode = MODE_8BIT_BYTE -> 8 * n
       [] segment.mode = MODE_KANJI -> 13 * (n \div 2)

\* QRDataSegment.write: the number of bits a successful write appends
WriteLength(segment) ==
  LET n == Len(segment.data)
  IN CASE segment.mode = MODE_NUMBER ->
            10 * (n \div 3) + (IF n % 3 = 1 THEN 4 ELSE IF n % 3 = 2 THEN 7 ELSE 0)
       [] segment.mode = MODE_ALPHA_NUM -> 11 * (n \div 2) + 6 * (n % 2)
       [] segment.mode = MODE_8BIT_BYTE -> 8 * n
       [] segment.mode = MODE_KANJI -> 13 * (n \div 2)

\* QRDataSegment.write: the bits a successful write appends to the buffer
WriteBits(segment) ==
  LET d == segment.data
      n == Len(d)
  IN CASE segment.mode = MODE_NUMBER ->
            LET groups == n \div 3
                rest == n % 3
            IN [k \in 1..WriteLength(segment) |->
                  IF k <= 10 * groups
                  THEN BitAt(parseDigitGroupToNumber(d, 3 * ((k - 1) \div 10) + 1, 3),
                             9 - ((k - 1) % 10))
                  ELSE BitAt(parseDigitGroupToNumber(d, 3 * groups + 1, rest),
                             WriteLength(segment) - k)]
       [] segment.mode = MODE_ALPHA_NUM ->
            LET pairs == n \div 2
            IN [k \in 1..WriteLength(segment) |->
                  IF k <= 11 * pairs
                  THEN LET j == (k - 1) \div 11 IN
                       BitAt(getAlphanumericCodeForChar(d[2 * j + 1]) * 45
                               + getAlphanumericCodeForChar(d[2 * j + 2]),
                             10 - ((k - 1) % 11))
                  ELSE BitAt(getAlphanumericCodeForChar(d[n]), 6 - (k - 11 * pairs))]
       [] segment.mode = MODE_8BIT_BYTE ->
            [k \in 1..WriteLength(segment) |->
               BitAt(d[((k - 1) \div 8) + 1], 7 - ((k - 1) % 8))]
       [] segment.mode = MODE_KANJI ->
            [k \in 1..WriteLength(segment) |->
               BitAt(KanjiValue(d, (k - 1) \div 13), 12 - ((k - 1) % 13))]

RECURSIVE EncodeSegments(_, _, _)
\* the segment loop of createData and of make: mode, length field, payload
EncodeSegments(typeNumber, dataList, i) ==
  IF i > Len(dataList) THEN <<>>
  ELSE LET dataSegment == dataList[i] IN
       (Put(dataSegment.mode, 4)
          \o Put(getLength(dataSegment), getLengthInBits(dataSegment.mode, typeNumber))
          \o WriteBits(dataSegment))
       \o EncodeSegments(typeNumber, dataList, i + 1)

\* fault: the segment loop does not write the 4-bit mode indicator
BufferLengthWithoutMode(typeNumber, dataList) ==
  SumTo(LAMBDA i: getLengthInBits(dataList[i].mode, typeNumber)
                    + WriteLength(dataList[i]), 1, Len(dataList))

\* bitBuffer.getLengthInBits() after the segment loop
BufferLength(typeNumber, dataList) ==
  SumTo(LAMBDA i: 4 + getLengthInBits(dataList[i].mode, typeNumber)
                    + WriteLength(dataList[i]), 1, Len(dataList))

\* the error the segment loop raises: that of the first segment whose write throws
SegmentsError(dataList) ==
  IF \A i \in 1..Len(dataList) : WriteError(dataList[i]) = "none" THEN "none"
  ELSE WriteError(dataList[CHOOSE i \in 1..Len(dataList) :
                     /\ WriteError(dataList[i]) # "none"
                     /\ \A j \in 1..(i - 1) : WriteError(dataList[j]) = "none"])

----------------------------------------------------------------------------
(* Encode.createBytes and Encode.createData *)

\* the bytes of one block: its data codewords and its EC codewords
BlockCodewords(buffer, rsBlocks, blockIndex) ==
  LET dataOf(byteOffset, dataCodewordCount) ==
        [i \in 1..dataCodewordCount |->
           IF i + byteOffset <= Len(buffer) THEN buffer[i + byteOffset] % 256 ELSE 0] \o <<>>
      errorOf(remainderPolynomial, errorLength) ==
        [i \in 1..errorLength |->
           LET remainderIndex == (i - 1) + Len(remainderPolynomial) - errorLength
           IN IF remainderIndex >= 0 THEN remainderPolynomial[remainderIndex + 1] ELSE 0]
        \o <<>>
      coded(dataCodewords, errorCorrectPolynomial) ==
        [data |-> dataCodewords,
         error |-> errorOf(PolyMod(Polynomial(dataCodewords, Len(errorCorrectPolynomial) - 1),
                                   errorCorrectPolynomial),
                           Len(errorCorrectPolynomial) - 1)]
      block(rsBlock) ==
        coded(dataOf(SumTo(LAMBDA b: rsBlocks[b].dataCount, 1, blockIndex - 1),
                     rsBlock.dataCount),
              getErrorCorrectPolynomial(rsBlock.totalCount - rsBlock.dataCount))
  IN block(rsBlocks[blockIndex])

\* fault: the loop runs block by block instead of column by column
InterleaveBlockMajor(lists, maxCount) ==
  LET count == Len(lists)
      slots == [k \in 1..(maxCount * count) |->
                  LET i == (k - 1) % maxCount
                      blockIndex == ((k - 1) \div maxCount) + 1
                  IN IF i < Len(lists[blockIndex]) THEN lists[blockIndex][i + 1] ELSE -1]
  IN SelectSeq(slots, LAMBDA x: x >= 0)

\* one interleaving loop of createBytes: the i-th byte of every list that has one
Interleave(lists, maxCount) ==
  LET count == Len(lists)
      slots == [k \in 1..(maxCount * count) |->
                  LET i == (k - 1) \div count
                      blockIndex == ((k - 1) % count) + 1
                  IN IF i < Len(lists[blockIndex]) THEN lists[blockIndex][i + 1] ELSE -1]
  IN SelectSeq(slots, LAMBDA x: x >= 0)

\* the largest of 0 and F(1), ..., F(n): Math.max over a loop
MaxOver(F(_), n) ==
  CHOOSE largest \in {0} \cup {F(b) : b \in 1..n} : \A b \in 1..n : F(b) <= largest

\* Encode.createBytes over the bit buffer `bits`; -1 marks an array slot the
\* loops leave unset
createBytes(bits, rsBlocks) ==
  LET maxDataCodewordCount == MaxOver(LAMBDA b: rsBlocks[b].dataCount, Len(rsBlocks))
      maxErrorCodewordCount ==
        MaxOver(LAMBDA b: rsBlocks[b].totalCount - rsBlocks[b].dataCount, Len(rsBlocks))
      totalCodewordCount == SumTo(LAMBDA b: rsBlocks[b].totalCount, 1, Len(rsBlocks))
      filled(written) == written \o [k \in 1..(totalCodewordCount - Len(written)) |-> -1]
      interleaved(blocks) ==
        filled(Interleave([b \in 1..Len(rsBlocks) |-> blocks[b].data], maxDataCodewordCount)
                 \o Interleave([b \in 1..Len(rsBlocks) |-> blocks[b].error],
                               maxErrorCodewordCount))
      coded(buffer) ==
        interleaved([b \in 1..Len(rsBlocks) |-> BlockCodewords(buffer, rsBlocks, b)] \o <<>>)
  IN coded(BufferBytes(bits) \o <<>>)

\* Encode.paddingByteFirst, Encode.paddingByteSecond
paddingByteFirst == 236
paddingByteSecond == 17

\* the buffer of createData after terminator, bit padding and padding bytes
PadBuffer(bits, totalDataCount) ==
  LET padded(aligned, padCount) ==
        aligned \o [k \in 1..(8 * padCount) |->
                      BitAt(IF ((k - 1) \div 8) % 2 = 0 THEN paddingByteFirst
                            ELSE paddingByteSecond, 7 - ((k - 1) % 8))]
      bytePadded(aligned) ==
        padded(aligned, IF Len(aligned) >= totalDataCount * 8 THEN 0
                        ELSE (totalDataCount * 8 - Len(aligned)) \div 8)
      bitPadded(withTerminator) ==
        bytePadded(withTerminator
                     \o [k \in 1..((8 - (Len(withTerminator) % 8)) % 8) |-> 0])
  IN bitPadded(IF Len(bits) + 4 <= totalDataCount * 8 THEN bits \o Put(0, 4) ELSE bits)

\* fault: createData rejects a buffer that fills the capacity exactly
OverflowsAtCapacity(bitLength, totalDataCount) == bitLength >= totalDataCount * 8

\* the overflow test of createData
Overflows(bitLength, totalDataCount) == bitLength > totalDataCount * 8

\* Encode.createData: the interleaved codewords, or the error thrown
createData(typeNumber, errorCorrectionLevel, dataList) ==
  LET sized(rsBlocks, totalDataCount, segmentsError) ==
        IF segmentsError # "none" THEN [error |-> segmentsError, data |-> <<>>]
        ELSE IF Overflows(BufferLength(typeNumber, dataList), totalDataCount)
             THEN [error |-> "CodeOverflow", data |-> <<>>]
             ELSE [error |-> "none",
                   data |-> createBytes(PadBuffer(EncodeSegments(typeNumber, dataList, 1),
                                                  totalDataCount), rsBlocks)]
      laidOut(rsBlocks) == sized(rsBlocks, TotalDataCount(rsBlocks), SegmentsError(dataList))
  IN laidOut(getRSBlocks(typeNumber, errorCorrectionLevel))
----------------------------------------------------------------------------
(* Build: the matrix builder *)

\* a moduleCount x moduleCount grid whose cell (row, col) is F(row, col)
GridOf(moduleCount, F(_, _)) ==
  [r \in 1..moduleCount |-> [c \in 1..moduleCount |-> F(r - 1, c - 1)] \o <<>>] \o <<>>

\* grid[row][col] of the source
Cell(grid, row, col) == grid[row + 1][col + 1]

BoolCell(b) == IF b THEN 1 ELSE 0

\* the grid with cell (row, col) replaced by F(row, col) for the in-range rows
\* of `rows` and columns of `cols`
SetCells(grid, rows, cols, F(_, _)) ==
  [r \in 1..Len(grid) |->
     IF (r - 1) \in rows
     THEN [c \in 1..Len(grid[r]) |->
             IF (c - 1) \in cols THEN F(r - 1, c - 1) ELSE grid[r][c]] \o <<>>
     ELSE grid[r]] \o <<>>

\* Build.allocateGrid
allocateGrid(gridSize) == GridOf(gridSize, LAMBDA r, c: -1)

\* Build.setupPositionProbePattern
setupPositionProbePattern(row, col, grid, moduleCount) ==
  SetCells(grid, (row - 1)..(row + 7), (col - 1)..(col + 7), LAMBDA r, c:
    LET rowOffset == r - row
        colOffset == c - col
    IN BoolCell(
         \/ (0 <= rowOffset /\ rowOffset <= 6 /\ (colOffset = 0 \/ colOffset = 6))
         \/ (0 <= colOffset /\ colOffset <= 6 /\ (rowOffset = 0 \/ rowOffset = 6))
         \/ (2 <= rowOffset /\ rowOffset <= 4 /\ 2 <= colOffset /\ colOffset <= 4)))

\* fault: the alignment pattern is stamped whatever its centre cell holds
StampAdjustPatternUnguarded(grid, row, col) ==
  SetCells(grid, (row - 2)..(row + 2), (col - 2)..(col + 2), LAMBDA r, c:
    LET rowOffset == r - row
        colOffset == c - col
    IN BoolCell(rowOffset = -2 \/ rowOffset = 2 \/ colOffset = -2
                \/ colOffset = 2 \/ (rowOffset = 0 /\ colOffset = 0)))

\* one 5 x 5 alignment pattern centred at (row, col), stamped when the centre is null
StampAdjustPattern(grid, row, col) ==
  IF Cell(grid, row, col) # -1 THEN grid
  ELSE SetCells(grid, (row - 2)..(row + 2), (col - 2)..(col + 2), LAMBDA r, c:
         LET rowOffset == r - row
             colOffset == c - col
         IN BoolCell(rowOffset = -2 \/ rowOffset = 2 \/ colOffset = -2
                     \/ colOffset = 2 \/ (rowOffset = 0 /\ colOffset = 0)))

RECURSIVE AdjustLoop(_, _, _, _)
\* the double loop of setupPositionAdjustPattern for k = i * length + j in
\* from..(to - 1); the range is halved at each level of the recursion
AdjustLoop(grid, positionList, from, to) ==
  IF to <= from \/ Len(grid) = 0 THEN grid
  ELSE IF to - from = 1
  THEN StampAdjustPattern(grid, positionList[(from \div Len(positionList)) + 1],
                          positionList[(from % Len(positionList)) + 1])
  ELSE AdjustLoop(AdjustLoop(grid, positionList, from, (from + to) \div 2),
                  positionList, (from + to) \div 2, to)

\* Build.setupPositionAdjustPattern
setupPositionAdjustPattern(grid, typeNumber) ==
  LET stamped(positionList) ==
        AdjustLoop(grid, positionList, 0, Len(positionList) * Len(positionList))
  IN stamped(getPatternPosition(typeNumber))

\* Build.setupTimingPattern: the loop over column 6, then the loop over row 6
setupTimingPattern(grid, moduleCount) ==
  LET rowLoop(column) ==
        SetCells(column, {6}, 8..(moduleCount - 9), LAMBDA r, c:
          IF Cell(column, 6, c) # -1 THEN Cell(column, 6, c) ELSE BoolCell(c % 2 = 0))
  IN rowLoop(SetCells(grid, 8..(moduleCount - 9), {6}, LAMBDA r, c:
               IF Cell(grid, r, 6) # -1 THEN Cell(grid, r, 6) ELSE BoolCell(r % 2 = 0)))

\* Build.setupTypeInfo: the cells of the two copies of format bit i
TypeInfoFirst(i, moduleCount) ==
  IF i < 6 THEN <<i, 8>>
  ELSE IF i < 8 THEN <<i + 1, 8>>
  ELSE <<moduleCount - 15 + i, 8>>

TypeInfoSecond(i, moduleCount) ==
  IF i < 8 THEN <<8, moduleCount - i - 1>>
  ELSE IF i < 9 THEN <<8, 15 - i - 1 + 1>>
  ELSE <<8, 15 - i - 1>>

\* Build.setupTypeInfo: the first copies and the fixed dark module lie in
\* column 8, the second copies in row 8
setupTypeInfo(test, maskPattern, grid, errorCorrectionLevel, moduleCount) ==
  LET typeInfoData == errorCorrectionLevel * 8 + maskPattern
      typeInfoBits == getBCHTypeInfo(typeInfoData)
      isDarkModule(i) == BoolCell(~test /\ BitAt(typeInfoBits, i) = 1)
      column == SetCells(grid, 0..(moduleCount - 1), {8}, LAMBDA r, c:
                  IF r = moduleCount - 8 THEN BoolCell(~test)
                  ELSE IF \E i \in 0..14 : TypeInfoFirst(i, moduleCount) = <<r, c>>
                  THEN isDarkModule(CHOOSE i \in 0..14 :
                                      TypeInfoFirst(i, moduleCount) = <<r, c>>)
                  ELSE Cell(grid, r, c))
  IN SetCells(column, {8}, 0..(moduleCount - 1), LAMBDA r, c:
       IF \E i \in 0..14 : TypeInfoSecond(i, moduleCount) = <<r, c>>
       THEN isDarkModule(CHOOSE i \in 0..14 : TypeInfoSecond(i, moduleCount) = <<r, c>>)
       ELSE Cell(column, r, c))

\* Build.setupTypeNumber: the cells of the two copies of version bit i
TypeNumberFirst(i, moduleCount) == <<i \div 3, (i % 3) + moduleCount - 8 - 3>>
TypeNumberSecond(i, moduleCount) == <<(i % 3) + moduleCount - 8 - 3, i \div 3>>

\* Build.setupTypeNumber
setupTypeNumber(test, grid, typeNumber, moduleCount) ==
  LET typeBits == getBCHTypeNumber(typeNumber)
      isDarkModule(i) == BoolCell(~test /\ BitAt(typeBits, i) = 1)
      upper == SetCells(grid, 0..5, (moduleCount - 11)..(moduleCount - 9), LAMBDA r, c:
                 isDarkModule(CHOOSE i \in 0..17 : TypeNumberFirst(i, moduleCount) = <<r, c>>))
  IN SetCells(upper, (moduleCount - 11)..(moduleCount - 9), 0..5, LAMBDA r, c:
       isDarkModule(CHOOSE i \in 0..17 : TypeNumberSecond(i, moduleCount) = <<r, c>>))

\* fault: a cell is left alone once the codewords are used up
PlaceCellWhileData(walk, codewordData, maskPattern, row, col) ==
  IF Cell(walk.grid, row, col) # -1 \/ walk.byteIndex >= Len(codewordData) THEN walk
  ELSE LET dataBit ==
             codewordData[walk.byteIndex + 1] # -1
               /\ BitAt(codewordData[walk.byteIndex + 1], walk.bitIndex) = 1
           isDarkModule == IF maskFunction(maskPattern, row, col) THEN ~dataBit ELSE dataBit
       IN [grid |-> [walk.grid EXCEPT ![row + 1][col + 1] = BoolCell(isDarkModule)],
           bitIndex |-> IF walk.bitIndex = 0 THEN 7 ELSE walk.bitIndex - 1,
           byteIndex |-> IF walk.bitIndex = 0 THEN walk.byteIndex + 1 ELSE walk.byteIndex]

\* Build.mapData: the body of the colOffset loop for one cell.  The walk
\* state is the grid with bitIndex and byteIndex.
PlaceCell(walk, codewordData, maskPattern, row, col) ==
  IF Cell(walk.grid, row, col) # -1 THEN walk
  ELSE LET dataBit ==
             IF walk.byteIndex < Len(codewordData)
             THEN codewordData[walk.byteIndex + 1] # -1
                  /\ BitAt(codewordData[walk.byteIndex + 1], walk.bitIndex) = 1
             ELSE FALSE
           isDarkModule == IF maskFunction(maskPattern, row, col) THEN ~dataBit ELSE dataBit
       IN [grid |-> [walk.grid EXCEPT ![row + 1][col + 1] = BoolCell(isDarkModule)],
           bitIndex |-> IF walk.bitIndex = 0 THEN 7 ELSE walk.bitIndex - 1,
           byteIndex |-> IF walk.bitIndex = 0 THEN walk.byteIndex + 1 ELSE walk.byteIndex]

\* Build.mapData: the two cells of one row of a column pair, nothing for a
\* row outside the grid
PlaceRow(walk, codewordData, maskPattern, currentCol, currentRow, moduleCount) ==
  IF currentRow < 0 \/ moduleCount <= currentRow THEN walk
  ELSE PlaceCell(PlaceCell(walk, codewordData, maskPattern, currentRow, currentCol),
                 codewordData, maskPattern, currentRow, currentCol - 1)

\* Build.mapData: currentCol in the given pass of the for loop (passes count
\* from 0): two columns to the left each pass, one more from column 6 on
WalkCol(moduleCount, pass) ==
  IF moduleCount - 1 - 2 * pass <= 6 THEN moduleCount - 2 - 2 * pass
  ELSE moduleCount - 1 - 2 * pass

\* Build.mapData: currentRow in the given turn of the while loop of a pass:
\* rowIncrement is -1 in the even passes and 1 in the odd ones
WalkRow(moduleCount, pass, turn) ==
  IF pass % 2 = 0 THEN moduleCount - 1 - turn ELSE turn

RECURSIVE MapRows(_, _, _, _, _, _)
\* Build.mapData: the turns from..(to - 1) of the while loop, counted through
\* the passes of the for loop (moduleCount turns each); the range is halved at
\* each level of the recursion
MapRows(walk, codewordData, maskPattern, moduleCount, from, to) ==
  IF to <= from \/ walk.bitIndex < 0 THEN walk
  ELSE IF to - from = 1
  THEN PlaceRow(walk, codewordData, maskPattern,
                WalkCol(moduleCount, from \div moduleCount),
                WalkRow(moduleCount, from \div moduleCount, from % moduleCount),
                moduleCount)
  ELSE MapRows(MapRows(walk, codewordData, maskPattern, moduleCount,
                       from, (from + to) \div 2),
               codewordData, maskPattern, moduleCount, (from + to) \div 2, to)

\* Build.mapData: (moduleCount - 1) / 2 passes of the for loop
mapData(codewordData, maskPattern, grid, moduleCount) ==
  MapRows([grid |-> grid, bitIndex |-> 7, byteIndex |-> 0], codewordData, maskPattern,
          moduleCount, 0, ((moduleCount - 1) \div 2) * moduleCount).grid

\* the function patterns buildMatrix places before the data
FunctionPatterns(typeNumber, errorCorrectionLevelValue, test, maskPattern) ==
  LET moduleCount == typeNumber * 4 + 17
      versioned(grid) ==
        IF typeNumber >= 7 THEN setupTypeNumber(test, grid, typeNumber, moduleCount) ELSE grid
  IN versioned(
       setupTypeInfo(test, maskPattern,
         setupTimingPattern(
           setupPositionAdjustPattern(
             setupPositionProbePattern(0, moduleCount - 7,
               setupPositionProbePattern(moduleCount - 7, 0,
                 setupPositionProbePattern(0, 0, allocateGrid(moduleCount), moduleCount),
                 moduleCount),
               moduleCount),
             typeNumber),
           moduleCount),
         errorCorrectionLevelValue, moduleCount))

\* fault: a cached codeword stream loses its first byte when it is reused
finalEncodedDataConsumed(cache, createdData) ==
  IF cache = NullCache THEN createdData ELSE Tail(cache)

\* fault: the codewords are built anew although cached ones were passed
finalEncodedDataRebuilt(cache, createdData) == createdData

\* Build.buildMatrix: finalEncodedData = cachedData ?? createData(...)
finalEncodedData(cache, createdData) ==
  IF cache = NullCache THEN createdData ELSE cache

\* Build.buildMatrix: the build result, or the error createData throws
buildMatrix(typeNumber, errorCorrectionLevelValue, dataList, cache, test, maskPattern) ==
  LET moduleCount == typeNumber * 4 + 17
      built(codewordData) ==
        [error |-> "none",
         moduleGrid |->
           mapData(codewordData, maskPattern,
                   FunctionPatterns(typeNumber, errorCorrectionLevelValue, test, maskPattern),
                   moduleCount),
         moduleCountValue |-> moduleCount,
         encodedDataCache |-> codewordData]
      withData(created) ==
        IF cache = NullCache /\ created.error # "none"
        THEN [error |-> created.error, moduleGrid |-> NullGrid, moduleCountValue |-> 0,
              encodedDataCache |-> NullCache]
        ELSE built(finalEncodedData(cache, created.data))
  IN withData(createData(typeNumber, errorCorrectionLevelValue, dataList))

----------------------------------------------------------------------------
(* Util.getLostPoint: the penalty scorer *)

\* QRCode.isDark on a built grid, for in-range cells
DarkAt(grid, row, col) == Cell(grid, row, col) = 1

\* the first loop: whether the neighbour at the given offset counts, being
\* inside the grid and of the colour of (row, col)
SameAt(grid, moduleCount, row, col, rowOffset, colOffset) ==
  IF row + rowOffset < 0 \/ moduleCount <= row + rowOffset THEN 0
  ELSE IF col + colOffset < 0 \/ moduleCount <= col + colOffset THEN 0
  ELSE IF DarkAt(grid, row, col) = DarkAt(grid, row + rowOffset, col + colOffset) THEN 1
  ELSE 0

\* the first loop: the neighbours of (row, col) of its colour
SameCount(grid, moduleCount, row, col) ==
  SameAt(grid, moduleCount, row, col, -1, -1) + SameAt(grid, moduleCount, row, col, -1, 0)
    + SameAt(grid, moduleCount, row, col, -1, 1) + SameAt(grid, moduleCount, row, col, 0, -1)
    + SameAt(grid, moduleCount, row, col, 0, 1) + SameAt(grid, moduleCount, row, col, 1, -1)
    + SameAt(grid, moduleCount, row, col, 1, 0) + SameAt(grid, moduleCount, row, col, 1, 1)

\* the integer part of lostPoint (the first four loops) and darkCount; each
\* loop adds a fixed amount per cell that meets its test, the first one
\* 3 + sameCount - 5
LostPointParts(grid, moduleCount) ==
  LET n == moduleCount
      crowded == { p \in (0..(n - 1)) \X (0..(n - 1)) : SameCount(grid, n, p[1], p[2]) > 5 }
      adjacent ==
        BagCardinality([p \in crowded |-> 3 + SameCount(grid, n, p[1], p[2]) - 5])
      blocks ==
        3 * Cardinality({ p \in (0..(n - 2)) \X (0..(n - 2)) :
              LET darkCellCount ==
                    BoolCell(DarkAt(grid, p[1], p[2])) + BoolCell(DarkAt(grid, p[1] + 1, p[2]))
                      + BoolCell(DarkAt(grid, p[1], p[2] + 1))
                      + BoolCell(DarkAt(grid, p[1] + 1, p[2] + 1))
              IN darkCellCount = 0 \/ darkCellCount = 4 })
      horizontal ==
        40 * Cardinality({ p \in (0..(n - 1)) \X (0..(n - 7)) :
               /\ DarkAt(grid, p[1], p[2])
               /\ ~DarkAt(grid, p[1], p[2] + 1)
               /\ DarkAt(grid, p[1], p[2] + 2)
               /\ DarkAt(grid, p[1], p[2] + 3)
               /\ DarkAt(grid, p[1], p[2] + 4)
               /\ ~DarkAt(grid, p[1], p[2] + 5)
               /\ DarkAt(grid, p[1], p[2] + 6) })
      vertical ==
        40 * Cardinality({ p \in (0..(n - 7)) \X (0..(n - 1)) :
               /\ DarkAt(grid, p[1], p[2])
               /\ ~DarkAt(grid, p[1] + 1, p[2])
               /\ DarkAt(grid, p[1] + 2, p[2])
               /\ DarkAt(grid, p[1] + 3, p[2])
               /\ DarkAt(grid, p[1] + 4, p[2])
               /\ ~DarkAt(grid, p[1] + 5, p[2])
               /\ DarkAt(grid, p[1] + 6, p[2]) })
      darkCount ==
        Cardinality({ p \in (0..(n - 1)) \X (0..(n - 1)) : DarkAt(grid, p[1], p[2]) })
  IN [lostPoint |-> adjacent + blocks + horizontal + vertical,
      darkCount |-> darkCount, moduleCount |-> n]

Abs(x) == IF x < 0 THEN -x ELSE x

\* Util.getLostPoint times moduleCount^2.  The source returns the real
\* number  lostPoint + |100 * darkCount / n / n - 50| / 5 * 10  (the ratio is
\* not rounded); scores of grids of one size compare as these integers do.
getLostPoint(parts) ==
  parts.lostPoint * parts.moduleCount * parts.moduleCount
    + 2 * Abs(100 * parts.darkCount - 50 * parts.moduleCount * parts.moduleCount)

RECURSIVE BestMaskLoop(_, _, _, _)
\* the loop of getBestMaskPattern over the scores of the trial grids, for
\* patternIndex in from..(to - 1) and on the pair <<minLostPoint,
\* bestMaskPattern>>; the range is halved at each level of the recursion
BestMaskLoop(lostPoints, best, from, to) ==
  IF to <= from \/ best[2] < 0 THEN best
  ELSE IF to - from = 1
  THEN IF from = 0 \/ best[1] > lostPoints[from + 1]
       THEN <<lostPoints[from + 1], from>>
       ELSE best
  ELSE BestMaskLoop(lostPoints, BestMaskLoop(lostPoints, best, from, (from + to) \div 2),
                    (from + to) \div 2, to)

\* QRCode.getBestMaskPattern, given the score parts of the trial grids
getBestMaskPattern(scoreParts) ==
  BestMaskLoop([m \in 1..8 |-> getLostPoint(scoreParts[m])], <<0, 0>>, 0, 8)[2]

----------------------------------------------------------------------------
(* The symbol object: QRCode.create and its closures *)

\* "HELLO WORLD"
HelloWorld == <<72, 69, 76, 76, 79, 32, 87, 79, 82, 76, 68>>
\* "ABC"
Abc == <<65, 66, 67>>
\* "12a"
Digits12a == <<49, 50, 97>>
\* "x".repeat(MidLen)
MidText == [i \in 1..MidLen |-> 120] \o <<>>
\* "x".repeat(BigLen)
BigText == [i \in 1..BigLen |-> 120] \o <<>>

\* the (data, mode) arguments addData is called with
Inputs ==
  { [data |-> HelloWorld, mode |-> "Alphanumeric"],
    [data |-> Abc, mode |-> ""],
    [data |-> BigText, mode |-> "Byte"],
    [data |-> Digits12a, mode |-> "Numeric"],
    [data |-> Abc, mode |-> "Hex"] }

\* the (typeNumber, errorCorrectionLevel) arguments create is called with
Symbols == {0, 1} \X {"M", "H"}

\* the value of QRError[name] for a name that  name in QRError  finds among
\* the members inherited from Object.prototype: a function or an object, not
\* a level index
InheritedMember == -1

\* errorCorrectionLevel in Helpers.Global.QRError
HasLevel(errorCorrectionLevel) ==
  errorCorrectionLevel \in DOMAIN QRError \/ errorCorrectionLevel \in ObjectPrototypeKeys

\* QRCode.create: the level value the new symbol keeps, or the error thrown
create(typeNumber, errorCorrectionLevel) ==
  IF ~HasLevel(errorCorrectionLevel)
  THEN [error |-> "BadErrorLevel", errorCorrectionLevelValue |-> InheritedMember]
  ELSE [error |-> "none",
        errorCorrectionLevelValue |->
          IF errorCorrectionLevel \in DOMAIN QRError THEN QRError[errorCorrectionLevel]
          ELSE InheritedMember]

\* the state QRCode.create leaves, for a symbol drawn from symbolSet
InitOf(symbolSet) ==
  \E symbol \in symbolSet :
    /\ createdTypeNumber = symbol[1]
    /\ currentTypeNumber = symbol[1]
    /\ errorLevel = create(symbol[1], symbol[2]).errorCorrectionLevelValue
    /\ dataSegmentList = <<>>
    /\ encodedDataCache = NullCache
    /\ moduleGrid = NullGrid
    /\ moduleCountValue = 0
    /\ lastOp = "create"
    /\ lastError = "none"
    /\ readArgs = <<>>
    /\ readResult = "none"
    /\ committedMask = -1
    /\ trialParts = <<>>
    /\ madeSegments = <<>>
    /\ returnedData = <<>>
    /\ exponentTable = StaticExponentTable
    /\ logarithmTable = StaticLogarithmTable(StaticExponentTable)
    /\ callArgs = symbol
    /\ callResult = <<>>
    /\ bitBuffer = BufferCreate
    /\ writtenBits = <<>>

Init == InitOf(Symbols)

\* fault: addData keeps the encoded-data cache
CacheAfterAppendKept(cache) == cache

\* QRCode.addData: encodedDataCache = null
CacheAfterAppend(cache) == NullCache

\* QRCode.addData
AddData(data, mode) ==
  /\ Len(dataSegmentList) < MaxSegments
  /\ \E encoded \in {encode(data, IF mode = "" THEN "Byte" ELSE mode)} :
        IF encoded.error # "none"
        THEN /\ lastError' = encoded.error
             /\ UNCHANGED <<dataSegmentList, encodedDataCache>>
        ELSE /\ dataSegmentList' = Append(dataSegmentList, encoded.segment)
             /\ encodedDataCache' = CacheAfterAppend(encodedDataCache)
             /\ lastError' = "none"
  /\ lastOp' = "addData"
  /\ readArgs' = <<>>
  /\ readResult' = "none"
  /\ callArgs' = <<mode>>
  /\ callResult' = <<>>
  /\ UNCHANGED <<createdTypeNumber, currentTypeNumber, errorLevel, moduleGrid,
                 moduleCountValue, committedMask, trialParts, madeSegments, returnedData,
                 tables, buffers>>

\* fault: the column test lets col = moduleCount through
isDarkColumnOffByOne(row, col) ==
  IF row < 0 \/ moduleCountValue <= row \/ col < 0 \/ moduleCountValue < col
  THEN "OutOfRange"
  ELSE IF moduleGrid = NullGrid THEN "NotMade"
  ELSE IF row + 1 > Len(moduleGrid) THEN "RowOutOfRange"
  ELSE IF col + 1 <= Len(moduleGrid[row + 1]) /\ moduleGrid[row + 1][col + 1] = 1
  THEN "true" ELSE "false"

\* QRCode.isDark: the value returned, or the error thrown
isDark(row, col) ==
  IF row < 0 \/ moduleCountValue <= row \/ col < 0 \/ moduleCountValue <= col
  THEN "OutOfRange"
  ELSE IF moduleGrid = NullGrid THEN "NotMade"
  ELSE IF row + 1 > Len(moduleGrid) THEN "RowOutOfRange"
  ELSE IF col + 1 <= Len(moduleGrid[row + 1]) /\ moduleGrid[row + 1][col + 1] = 1
  THEN "true" ELSE "false"

\* QRCode.getModuleCount
getModuleCount == moduleCountValue

\* the coordinates isDark is called with
ReadCoordinates == {-1, 0, moduleCountValue - 1, moduleCountValue}

\* a call of isDark
IsDark(row, col) ==
  /\ readArgs' = <<row, col>>
  /\ \E result \in {isDark(row, col)} :
       /\ readResult' = result
       /\ lastError' = IF result \in {"true", "false"} THEN "none" ELSE result
  /\ lastOp' = "isDark"
  /\ UNCHANGED <<createdTypeNumber, currentTypeNumber, errorLevel, dataSegmentList,
                 encodedDataCache, moduleGrid, moduleCountValue, committedMask, trialParts,
                 madeSegments, returnedData, tables, buffers>>
  /\ callArgs' = <<>>
  /\ callResult' = <<>>

\* fault: a candidate version is taken only when a bit of room is left
FitsWithRoom(bitLength, totalDataCount) == bitLength < totalDataCount * 8

\* QRCode.make: the test that ends the candidate loop
Fits(bitLength, totalDataCount) == bitLength <= totalDataCount * 8

RECURSIVE FirstFitting(_, _, _, _)
\* the candidate loop of make run from the candidate `from` up to `to`: the
\* first candidate below `to` whose capacity holds the buffer, or `to`; the
\* range is halved at each level of the recursion
FirstFitting(from, to, errorCorrectionLevelValue, dataList) ==
  IF to <= from THEN from
  ELSE IF to - from = 1
  THEN IF Fits(BufferLength(from, dataList),
               TotalDataCount(getRSBlocks(from, errorCorrectionLevelValue)))
       THEN from
       ELSE to
  ELSE LET found(first) ==
             IF first < (from + to) \div 2 THEN first
             ELSE FirstFitting((from + to) \div 2, to, errorCorrectionLevelValue, dataList)
       IN found(FirstFitting(from, (from + to) \div 2, errorCorrectionLevelValue, dataList))

\* fault: the candidate loop ends at 39
SelectTypeNumberUpTo39(candidateTypeNumber, errorCorrectionLevelValue, dataList) ==
  FirstFitting(candidateTypeNumber, 39, errorCorrectionLevelValue, dataList)

\* the candidate loop of make: for (; typeNumber < 40; typeNumber++)
SelectTypeNumber(candidateTypeNumber, errorCorrectionLevelValue, dataList) ==
  FirstFitting(candidateTypeNumber, 40, errorCorrectionLevelValue, dataList)

\* one pass of the loop of getBestMaskPattern: makeImpl(trialRun, patternIndex)
\* given the cache the call before it stored, and the score parts of the grid
\* it stored; nothing after a call that threw
TrialRun(trials, typeNumber, errorCorrectionLevelValue, dataList, patternIndex) ==
  IF trials.error # "none" THEN trials
  ELSE LET scored(trial) ==
             IF trial.error # "none"
             THEN [trials EXCEPT !.error = trial.error]
             ELSE [error |-> "none", encodedDataCache |-> trial.encodedDataCache,
                   moduleGrid |-> trial.moduleGrid, moduleCountValue |-> trial.moduleCountValue,
                   parts |-> Append(trials.parts,
                                    LostPointParts(trial.moduleGrid, trial.moduleCountValue))]
       IN scored(buildMatrix(typeNumber, errorCorrectionLevelValue, dataList,
                             trials.encodedDataCache, TRUE, patternIndex))

RECURSIVE TrialRuns(_, _, _, _, _, _)
\* the loop of getBestMaskPattern for patternIndex in from..(to - 1); the
\* range is halved at each level of the recursion
TrialRuns(trials, typeNumber, errorCorrectionLevelValue, dataList, from, to) ==
  IF to <= from \/ trials.error # "none" THEN trials
  ELSE IF to - from = 1
  THEN TrialRun(trials, typeNumber, errorCorrectionLevelValue, dataList, from)
  ELSE TrialRuns(TrialRuns(trials, typeNumber, errorCorrectionLevelValue, dataList,
                           from, (from + to) \div 2),
                 typeNumber, errorCorrectionLevelValue, dataList, (from + to) \div 2, to)

\* fault: make selects a version whenever it is called
SelectingAlways(typeNumber) == TRUE

\* QRCode.make: the test that guards the version selection
Selecting(typeNumber) == typeNumber < 1

\* fault: a make that throws leaves an empty grid behind
MakeThrewCleared(error, typeNumberAfter) ==
  [error |-> error, built |-> FALSE, stored |-> TRUE, currentTypeNumber |-> typeNumberAfter,
   moduleGrid |-> NullGrid, moduleCountValue |-> 0, encodedDataCache |-> NullCache,
   committedMask |-> -1, trialParts |-> <<>>]

\* QRCode.make left by an error before any makeImpl has stored a result:
\* the closure keeps its grid, its module count and its cache
MakeThrew(error, typeNumberAfter) ==
  [error |-> error, built |-> FALSE, stored |-> FALSE, currentTypeNumber |-> typeNumberAfter,
   moduleGrid |-> NullGrid, moduleCountValue |-> 0, encodedDataCache |-> NullCache,
   committedMask |-> -1, trialParts |-> <<>>]

\* QRCode.make with getBestMaskPattern and the nine makeImpl calls: the values
\* the call leaves in the closure, `built` telling whether makeImpl stored a grid
make(typeNumberBefore, errorCorrectionLevelValue, dataList, cache) ==
  LET selecting == Selecting(typeNumberBefore)
      failed(error, typeNumberAfter) == MakeThrew(error, typeNumberAfter)
      \* makeImpl threw after it had stored the results of earlier trial runs
      interrupted(typeNumber, trials) ==
        [error |-> trials.error, built |-> FALSE, stored |-> TRUE,
         currentTypeNumber |-> typeNumber,
         moduleGrid |-> trials.moduleGrid, moduleCountValue |-> trials.moduleCountValue,
         encodedDataCache |-> trials.encodedDataCache,
         committedMask |-> -1, trialParts |-> trials.parts]
      stored(typeNumber, parts, bestMaskPattern, final) ==
        [error |-> "none", built |-> TRUE, stored |-> TRUE, currentTypeNumber |-> typeNumber,
         trialParts |-> parts, committedMask |-> bestMaskPattern,
         moduleGrid |-> final.moduleGrid, moduleCountValue |-> final.moduleCountValue,
         encodedDataCache |-> final.encodedDataCache]
      \* makeImpl(finalRun, bestMaskPattern)
      finished(typeNumber, trials, bestMaskPattern) ==
        stored(typeNumber, trials.parts, bestMaskPattern,
               buildMatrix(typeNumber, errorCorrectionLevelValue, dataList,
                           trials.encodedDataCache, FALSE, bestMaskPattern))
      tried(typeNumber, trials) ==
        IF trials.error # "none"
        THEN IF trials.parts = <<>> THEN failed(trials.error, typeNumber)
             ELSE interrupted(typeNumber, trials)
        ELSE finished(typeNumber, trials, getBestMaskPattern(trials.parts))
      selected(typeNumber) ==
        tried(typeNumber,
              TrialRuns([error |-> "none", encodedDataCache |-> cache, parts |-> <<>>,
                         moduleGrid |-> NullGrid, moduleCountValue |-> 0],
                        typeNumber, errorCorrectionLevelValue, dataList, 0, 8))
      checked(selectError) ==
        IF selectError # "none" THEN failed(selectError, typeNumberBefore)
        ELSE selected(IF selecting
                      THEN SelectTypeNumber(1, errorCorrectionLevelValue, dataList)
                      ELSE typeNumberBefore)
  IN checked(IF selecting THEN SegmentsError(dataList) ELSE "none")

\* a call of make
Make ==
  \E made \in {make(currentTypeNumber, errorLevel, dataSegmentList, encodedDataCache)} :
    /\ lastOp' = "make"
    /\ lastError' = made.error
    /\ readArgs' = <<>>
    /\ readResult' = "none"
    /\ currentTypeNumber' = made.currentTypeNumber
    /\ IF made.built
       THEN /\ moduleGrid' = made.moduleGrid
            /\ moduleCountValue' = made.moduleCountValue
            /\ encodedDataCache' = made.encodedDataCache
            /\ committedMask' = made.committedMask
            /\ trialParts' = made.trialParts
            /\ madeSegments' = IF madeSegments = <<>> THEN <<Len(dataSegmentList)>>
                               ELSE <<madeSegments[Len(madeSegments)], Len(dataSegmentList)>>
       ELSE IF made.stored
       THEN /\ moduleGrid' = made.moduleGrid
            /\ moduleCountValue' = made.moduleCountValue
            /\ encodedDataCache' = made.encodedDataCache
            /\ UNCHANGED <<committedMask, trialParts, madeSegments>>
       ELSE UNCHANGED <<moduleGrid, moduleCountValue, encodedDataCache, committedMask,
                        trialParts, madeSegments>>
    /\ callArgs' = <<>>
    /\ callResult' = <<>>
    /\ UNCHANGED <<createdTypeNumber, errorLevel, dataSegmentList, returnedData, tables,
                   buffers>>

Next ==
  \/ \E input \in Inputs : AddData(input.data, input.mode)
  \/ Make

Spec == Init /\ [][Next]_vars

\* the reading client: small symbols, one text, and isDark at every probe
ReadSymbols == {<<1, "H">>, <<0, "M">>}

ReadInit == InitOf(ReadSymbols)

ReadNext ==
  \/ AddData(Abc, "")
  \/ Make
  \/ \E row \in ReadCoordinates, col \in ReadCoordinates : IsDark(row, col)

SpecRead == ReadInit /\ [][ReadNext]_vars

\* symbols with alignment patterns and remainder bits (versions 2 and 3) and
\* with alignment patterns on the timing lines and version information
\* (version 7)
LargeSymbols == {<<2, "Q">>, <<3, "M">>, <<7, "L">>}

LargeInputs ==
  { [data |-> HelloWorld, mode |-> "Alphanumeric"],
    [data |-> Digits12a, mode |-> "Numeric"] }

LargeInit == InitOf(LargeSymbols)

LargeNext ==
  \/ \E input \in LargeInputs : AddData(input.data, input.mode)
  \/ Make

SpecLarge == LargeInit /\ [][LargeNext]_vars

\* a call of Encode.createData with the symbol's version, level and segments
CreateData ==
  \E created \in {createData(createdTypeNumber, errorLevel, dataSegmentList)} :
    /\ lastOp' = "createData"
    /\ lastError' = created.error
    /\ returnedData' = IF created.error = "none" THEN created.data ELSE <<>>
    /\ readArgs' = <<>>
    /\ readResult' = "none"
    /\ UNCHANGED <<createdTypeNumber, currentTypeNumber, errorLevel, dataSegmentList,
                   encodedDataCache, moduleGrid, moduleCountValue, committedMask,
                   trialParts, madeSegments, tables, buffers>>
    /\ callArgs' = <<>>
    /\ callResult' = <<>>

\* the codeword builder on its own: versions on both sides of the change of
\* the length-field widths (9 to 10), two levels
EncodeSymbols == {1, 9, 10} \X {"L", "H"}

EncodeInputs ==
  { [data |-> HelloWorld, mode |-> "Alphanumeric"],
    [data |-> Abc, mode |-> "Byte"],
    [data |-> MidText, mode |-> "Byte"] }

EncodeInit == InitOf(EncodeSymbols)

EncodeNext ==
  \/ \E input \in EncodeInputs : AddData(input.data, input.mode)
  \/ CreateData

SpecEncode == EncodeInit /\ [][EncodeNext]_vars


\* a call of QRCode.create: the client takes the new symbol in place of the
\* one it held, and keeps the old one when create throws
Create(typeNumber, errorCorrectionLevel) ==
  \E created \in {create(typeNumber, errorCorrectionLevel)} :
    /\ lastOp' = "create"
    /\ lastError' = created.error
    /\ callArgs' = <<typeNumber, errorCorrectionLevel>>
    /\ callResult' = <<>>
    /\ readArgs' = <<>>
    /\ readResult' = "none"
    /\ IF created.error = "none"
       THEN /\ createdTypeNumber' = typeNumber
            /\ currentTypeNumber' = typeNumber
            /\ errorLevel' = created.errorCorrectionLevelValue
            /\ dataSegmentList' = <<>>
            /\ encodedDataCache' = NullCache
            /\ moduleGrid' = NullGrid
            /\ moduleCountValue' = 0
       ELSE UNCHANGED <<createdTypeNumber, currentTypeNumber, errorLevel, dataSegmentList,
                        encodedDataCache, moduleGrid, moduleCountValue>>
    /\ UNCHANGED <<committedMask, trialParts, madeSegments, returnedData, tables, buffers>>

\* the level names create is called with: the four levels, names that are
\* not levels, and names every object inherits
LevelNames == {"L", "M", "Q", "H", "X", "l", "", "toString", "constructor"}

\* the mode names addData is called with: the four modes, the missing mode,
\* names that are not modes, and names every object inherits
ModeNames ==
  {"Numeric", "Alphanumeric", "Byte", "Kanji", "", "Hex", "byte", "toString",
   "constructor", "hasOwnProperty"}

\* the client that creates symbols and gives them data
CreateInit == InitOf({<<1, "L">>})

CreateNext ==
  \/ \E typeNumber \in {0, 1}, errorCorrectionLevel \in LevelNames :
        Create(typeNumber, errorCorrectionLevel)
  \/ \E mode \in ModeNames : AddData(Abc, mode)

SpecCreate == CreateInit /\ [][CreateNext]_vars

\* the texts of the client that writes digits and letters: a foreign
\* character first, in the middle, last, and in the tail after the last full
\* group ("12a", "a12", "1a2", "1234a", "a", "12"; "AB", "aB", "ABc", "A,B")
CharInputs ==
  { [data |-> Digits12a, mode |-> "Numeric"],
    [data |-> <<97, 49, 50>>, mode |-> "Numeric"],
    [data |-> <<49, 97, 50>>, mode |-> "Numeric"],
    [data |-> <<49, 50, 51, 52, 97>>, mode |-> "Numeric"],
    [data |-> <<97>>, mode |-> "Numeric"],
    [data |-> <<49, 50>>, mode |-> "Numeric"],
    [data |-> <<65, 66>>, mode |-> "Alphanumeric"],
    [data |-> <<97, 66>>, mode |-> "Alphanumeric"],
    [data |-> <<65, 66, 99>>, mode |-> "Alphanumeric"],
    [data |-> <<65, 44, 66>>, mode |-> "Alphanumeric"] }

CharInit == InitOf({<<0, "M">>, <<1, "M">>})

CharNext ==
  \/ \E input \in CharInputs : AddData(input.data, input.mode)
  \/ Make

SpecChars == CharInit /\ [][CharNext]_vars

----------------------------------------------------------------------------
(* Calls of the static helpers: the arguments and the value returned *)

\* a call of a static helper that returns `result`; the symbol is not touched
Returns(name, args, result) ==
  /\ lastOp' = name
  /\ lastError' = "none"
  /\ callArgs' = args
  /\ callResult' = result
  /\ readArgs' = <<>>
  /\ readResult' = "none"
  /\ UNCHANGED <<createdTypeNumber, currentTypeNumber, errorLevel, dataSegmentList,
                 encodedDataCache, moduleGrid, moduleCountValue, committedMask,
                 trialParts, madeSegments, returnedData, tables, buffers>>

\* the bits a buffer holds after put(byte, 8) for every byte
BytesToBits(bytes) ==
  [k \in 1..(8 * Len(bytes)) |-> BitAt(bytes[((k - 1) \div 8) + 1], 7 - ((k - 1) % 8))]

\* a client about to call a static helper with one of the argument lists
PendingInit(argumentLists) ==
    /\ createdTypeNumber = 1
    /\ currentTypeNumber = 1
    /\ errorLevel = create(1, "L").errorCorrectionLevelValue
    /\ dataSegmentList = <<>>
    /\ encodedDataCache = NullCache
    /\ moduleGrid = NullGrid
    /\ moduleCountValue = 0
    /\ lastOp = "pending"
    /\ lastError = "none"
    /\ readArgs = <<>>
    /\ readResult = "none"
    /\ committedMask = -1
    /\ trialParts = <<>>
    /\ madeSegments = <<>>
    /\ returnedData = <<>>
    /\ exponentTable = StaticExponentTable
    /\ logarithmTable = StaticLogarithmTable(StaticExponentTable)
    /\ callArgs \in argumentLists
    /\ callResult = <<>>
    /\ bitBuffer = BufferCreate
    /\ writtenBits = <<>>

\* Encode.createBytes(bitBuffer, rsBlocks) on a buffer holding the bytes callArgs[1]
CreateBytes ==
  /\ lastOp = "pending"
  /\ \E interleavedCodewords \in {createBytes(BytesToBits(callArgs[1]), callArgs[2])} :
       Returns("createBytes", callArgs, interleavedCodewords)

MaxBlocks == 3

\* block shapes with one to three data codewords and one to three EC codewords
BlockShapes ==
  { [totalCount |-> 3, dataCount |-> 1], [totalCount |-> 4, dataCount |-> 2],
    [totalCount |-> 6, dataCount |-> 3], [totalCount |-> 4, dataCount |-> 3] }

\* every layout of one to MaxBlocks blocks, in any order of the shapes
BlockLayouts == UNION { [1..n -> BlockShapes] : n \in 1..MaxBlocks }

\* padded buffers: totalDataCount bytes, constant, counting or scattered
PaddedBuffers(totalDataCount) ==
  { [k \in 1..totalDataCount |-> (first + step * k) % 256] :
      first \in {0, 7, 200}, step \in {0, 1, 37} }

BytesInit ==
  PendingInit(UNION { { <<bytes, rsBlocks>> : bytes \in PaddedBuffers(TotalDataCount(rsBlocks)) } :
                        rsBlocks \in BlockLayouts })

BytesNext == CreateBytes

SpecBytes == BytesInit /\ [][BytesNext]_vars

\* the step of createBytes for one block of data codewords with
\* errorCodewordCount EC codewords: the remainder polynomial and the EC
\* codewords copied from it
BlockRemainder ==
  /\ lastOp = "pending"
  /\ \E remainderPolynomial \in
         {PolyMod(Polynomial(callArgs[1], Len(getErrorCorrectPolynomial(callArgs[2])) - 1),
                  getErrorCorrectPolynomial(callArgs[2]))} :
       Returns("mod", callArgs,
               << remainderPolynomial,
                  BlockCodewords(callArgs[1],
                                 << [totalCount |-> Len(callArgs[1]) + callArgs[2],
                                     dataCount |-> Len(callArgs[1])] >>, 1).error >>)

MaxBlockLength == 4
MaxErrorLength == 4

\* data blocks of one to MaxBlockLength bytes, among them blocks with leading
\* zero bytes and the all-zero blocks
DataBlocks == UNION { [1..n -> {0, 1, 2, 255}] : n \in 1..MaxBlockLength }

\* EC codeword counts: the small ones, and those of versions 1-L and 40-H
ErrorLengths == (1..MaxErrorLength) \cup {7, 30}

PolyInit == PendingInit(DataBlocks \X ErrorLengths)

PolyNext == BlockRemainder

SpecPoly == PolyInit /\ [][PolyNext]_vars

\* a call of a static helper that throws; the symbol is not touched
Throws(name, args, error) ==
  /\ lastOp = "pending"
  /\ lastOp' = name
  /\ lastError' = error
  /\ callArgs' = args
  /\ callResult' = <<>>
  /\ readArgs' = <<>>
  /\ readResult' = "none"
  /\ UNCHANGED <<createdTypeNumber, currentTypeNumber, errorLevel, dataSegmentList,
                 encodedDataCache, moduleGrid, moduleCountValue, committedMask,
                 trialParts, madeSegments, returnedData, tables, buffers>>

\* Math.galoisLog(fieldElement) alone
GaloisLog ==
  /\ lastOp = "pending"
  /\ callArgs[1] = "log"
  /\ IF galoisLog(callArgs[2]) = -1
     THEN Throws("galoisLog", callArgs, "InvalidFieldElement")
     ELSE Returns("galoisLog", callArgs, <<galoisLog(callArgs[2])>>)

\* Math.galoisExp(Math.galoisLog(fieldElement))
ExpOfLog ==
  /\ lastOp = "pending"
  /\ callArgs[1] = "expOfLog"
  /\ IF galoisLog(callArgs[2]) = -1
     THEN Throws("expOfLog", callArgs, "InvalidFieldElement")
     ELSE Returns("expOfLog", callArgs, <<galoisExp(galoisLog(callArgs[2]))>>)

\* Math.galoisLog(Math.galoisExp(exponentValue))
LogOfExp ==
  /\ lastOp = "pending"
  /\ callArgs[1] = "logOfExp"
  /\ Returns("logOfExp", callArgs, <<galoisLog(galoisExp(callArgs[2]))>>)

\* field elements and exponents, with the values next to the ends of the tables
FieldInit ==
  PendingInit(({"log", "expOfLog"} \X (-1..256)) \cup ({"logOfExp"} \X (-2..258)))

FieldNext == GaloisLog \/ ExpOfLog \/ LogOfExp

SpecField == FieldInit /\ [][FieldNext]_vars

----------------------------------------------------------------------------
(* A client of Buffer: bitBuffer is the object, writtenBits the bits the
   client has asked it to append *)

MaxBits == 9

\* the frame of a Buffer call: the symbol is not touched
BufferCall(name, args) ==
  /\ Len(writtenBits) < MaxBits
  /\ lastOp' = name
  /\ lastError' = "none"
  /\ callArgs' = args
  /\ callResult' = <<>>
  /\ readArgs' = <<>>
  /\ readResult' = "none"
  /\ UNCHANGED <<createdTypeNumber, currentTypeNumber, errorLevel, dataSegmentList,
                 encodedDataCache, moduleGrid, moduleCountValue, committedMask,
                 trialParts, madeSegments, returnedData, tables>>

\* Buffer.putBit(bitValue)
PutBit(bitValue) ==
  /\ BufferCall("putBit", <<bitValue>>)
  /\ bitBuffer' = putBit(bitBuffer, bitValue)
  /\ writtenBits' = Append(writtenBits, IF bitValue THEN 1 ELSE 0)

\* Buffer.put(high * 65536 + low, bitLength): the client counts the low
\* bitLength bits of the value, most significant first
PutValue(high, low, bitLength) ==
  /\ BufferCall("put", <<high, low, bitLength>>)
  /\ bitBuffer' = put(bitBuffer, <<high, low>>, bitLength)
  /\ writtenBits' = writtenBits \o (IF bitLength <= 16 THEN Put(low, bitLength)
                                     ELSE Put(high, bitLength - 16) \o Put(low, 16))

\* values below 2^bitLength for the widths 1, 3, 8, 10, 17 and 32, the last
\* with its top bit set (0x80010001) and with all bits set
PutInputs ==
  { <<0, 1, 1>>, <<0, 5, 3>>, <<0, 255, 8>>, <<0, 513, 10>>, <<1, 2, 17>>,
    <<32769, 1, 32>>, <<65535, 65535, 32>>, <<0, 0, 32>> }

BufferNext ==
  \/ \E bitValue \in BOOLEAN : PutBit(bitValue)
  \/ \E input \in PutInputs : PutValue(input[1], input[2], input[3])

SpecBuffer == CreateInit /\ [][BufferNext]_vars

----------------------------------------------------------------------------
(* Gif: the GIF87a encoder. A string of the LZW table is the sequence of its
   character codes; a byte stream is the sequence of its bytes. *)

\* ByteStream.writeShort on the byte array `bytes`
writeShort(bytes, intValue) ==
  Append(Append(bytes, intValue % 256), (intValue \div 256) % 256)

\* ByteStream.writeString
writeString(bytes, stringValue) == bytes \o [i \in 1..Len(stringValue) |-> stringValue[i] % 256]

\* Gif.#bitOutputStream over a fresh ByteStream; codes is the history of the
\* calls of write that passed its test: the pairs <<data, length>>
BitStreamCreate ==
  [bytes |-> <<>>, bitBuffer |-> 0, bitLength |-> 0, error |-> "none", codes |-> <<>>]

RECURSIVE BitStreamLoop(_, _, _)
\* the while loop of write and the two assignments after it
BitStreamLoop(stream, data, length) ==
  IF stream.bitLength + length >= 8
  THEN BitStreamLoop([stream EXCEPT
                        !.bytes = Append(@, BitOr(data * Pow2(stream.bitLength),
                                                  stream.bitBuffer) % 256),
                        !.bitBuffer = 0,
                        !.bitLength = 0],
                     data \div Pow2(8 - stream.bitLength),
                     length - (8 - stream.bitLength))
  ELSE [stream EXCEPT !.bitBuffer = BitOr(data * Pow2(stream.bitLength), @),
                      !.bitLength = @ + length]

\* write of Gif.#bitOutputStream
bitStreamWrite(stream, data, length) ==
  IF stream.error # "none" THEN stream
  ELSE IF data \div Pow2(length) # 0 THEN [stream EXCEPT !.error = "ValueExceedsBitLength"]
  ELSE BitStreamLoop([stream EXCEPT !.codes = Append(@, <<data, length>>)], data, length)

\* flush of Gif.#bitOutputStream
bitStreamFlush(stream) ==
  IF stream.error = "none" /\ stream.bitLength > 0
  THEN [stream EXCEPT !.bytes = Append(@, stream.bitBuffer % 256)]
  ELSE stream

\* Gif.#lzwTable with the entries getLZWRaster adds first, each with the
\* table size at its add: the characters below clearCode, then the clear code
\* and the end code
LzwTableCreate(clearCode, endCode) ==
  [codeMap |-> [key \in {<<i>> : i \in (0..(clearCode - 1)) \cup {clearCode, endCode}} |->
                  IF key[1] <= clearCode THEN key[1] ELSE clearCode + 1],
   tableSize |-> clearCode + 2]

\* contains of Gif.#lzwTable
lzwTableContains(table, key) == key \in DOMAIN table.codeMap

\* add of Gif.#lzwTable (the caller has tested contains)
lzwTableAdd(table, key) ==
  [codeMap |-> table.codeMap @@ (key :> table.tableSize), tableSize |-> table.tableSize + 1]

\* fault: the code width grows one entry late
LzwGrowsLate(tableSize, currentBitLength) == tableSize = Pow2(currentBitLength) + 1

\* getLZWRaster: the test that raises the code width before an entry is added
LzwGrows(tableSize, currentBitLength) == tableSize = Pow2(currentBitLength)

\* the body of the while loop of getLZWRaster for the pixel nextPixel
LzwStep(state, nextPixel) ==
  LET nextString == Append(state.currentString, nextPixel)
      grown(bitLength) ==
        [state EXCEPT !.stream = bitStreamWrite(@, state.table.codeMap[state.currentString],
                                                state.currentBitLength),
                      !.currentBitLength = bitLength,
                      !.table = lzwTableAdd(@, nextString),
                      !.currentString = <<nextPixel>>]
  IN IF lzwTableContains(state.table, nextString)
     THEN [state EXCEPT !.currentString = nextString]
     ELSE IF state.table.tableSize < 4095
     THEN grown(IF LzwGrows(state.table.tableSize, state.currentBitLength)
                THEN state.currentBitLength + 1 ELSE state.currentBitLength)
     ELSE [state EXCEPT !.stream = bitStreamWrite(@, state.table.codeMap[state.currentString],
                                                  state.currentBitLength),
                        !.currentString = <<nextPixel>>]

RECURSIVE LzwLoop(_, _, _, _)
\* the while loop of getLZWRaster for dataIndex in from..(to - 1); the range
\* is halved at each level of the recursion
LzwLoop(state, pixelData, from, to) ==
  IF to <= from \/ state.currentBitLength < 0 THEN state
  ELSE IF to - from = 1 THEN LzwStep(state, pixelData[from + 1])
  ELSE LzwLoop(LzwLoop(state, pixelData, from, (from + to) \div 2),
               pixelData, (from + to) \div 2, to)

\* fault: the clear code is the minimum code size itself
LzwClearCodeIsMinCodeSize(lzwMinCodeSize) == lzwMinCodeSize

\* clearCode of getLZWRaster
LzwClearCode(lzwMinCodeSize) == Pow2(lzwMinCodeSize)

\* Gif.#getLZWRaster up to its return: the table, the code width and the bit
\* stream after the final code, the end code and the flush
LzwRaster(pixelData, lzwMinCodeSize) ==
  LET clearCode == LzwClearCode(lzwMinCodeSize)
      endCode == Pow2(lzwMinCodeSize) + 1
      closed(state) ==
        [state EXCEPT !.stream =
           bitStreamFlush(
             bitStreamWrite(
               bitStreamWrite(@, state.table.codeMap[state.currentString],
                              state.currentBitLength),
               endCode, state.currentBitLength))]
  IN closed(LzwLoop([table |-> LzwTableCreate(clearCode, endCode),
                     currentBitLength |-> lzwMinCodeSize + 1,
                     currentString |-> <<IF Len(pixelData) > 0 THEN pixelData[1] ELSE 0>>,
                     stream |-> bitStreamWrite(BitStreamCreate, clearCode, lzwMinCodeSize + 1)],
                    pixelData, 1, Len(pixelData)))

\* Gif.#getLZWRaster: the bytes of the raster
getLZWRaster(pixelData, lzwMinCodeSize) == LzwRaster(pixelData, lzwMinCodeSize).stream.bytes

\* a pixel callback of the client: the pixel at (x, y) is the parity of a
\* quadratic residue of the pixel index y * stride + x
CallPixel(getPixel, x, y) ==
  LET residue(i) == (i * i * getPixel.a + i * getPixel.b + getPixel.c) % getPixel.m
  IN residue(y * getPixel.stride + x) % 2

\* Gif.#buildPixelData: pixelData[row * width + col] = getPixel(col, row)
buildPixelData(width, height, getPixel) ==
  [k \in 1..(width * height) |-> CallPixel(getPixel, (k - 1) % width, (k - 1) \div width)]
    \o <<>>

RECURSIVE SubBlocksFullLast(_, _)
\* fault: the loop also cuts off a remainder of exactly 255 bytes, and an
\* empty sub-block follows it
SubBlocksFullLast(rasterData, writeOffset) ==
  IF Len(rasterData) - writeOffset >= 255
  THEN <<255>> \o SubSeq(rasterData, writeOffset + 1, writeOffset + 255)
         \o SubBlocksFullLast(rasterData, writeOffset + 255)
  ELSE <<Len(rasterData) - writeOffset>>
         \o SubSeq(rasterData, writeOffset + 1, Len(rasterData))

RECURSIVE SubBlocks(_, _)
\* the sub-block loop of encodeToBytes and the last sub-block after it
SubBlocks(rasterData, writeOffset) ==
  IF Len(rasterData) - writeOffset > 255
  THEN <<255>> \o SubSeq(rasterData, writeOffset + 1, writeOffset + 255)
         \o SubBlocks(rasterData, writeOffset + 255)
  ELSE <<Len(rasterData) - writeOffset>>
         \o SubSeq(rasterData, writeOffset + 1, Len(rasterData))

\* Gif.#encodeToBytes
encodeToBytes(width, height, pixelData) ==
  LET header ==
        writeShort(writeShort(writeString(<<>>, <<71, 73, 70, 56, 55, 97>>), width), height)
          \o <<128, 0, 0>> \o <<0, 0, 0, 255, 255, 255>>
      descriptor(bytes) ==
        Append(writeShort(writeShort(writeShort(writeShort(writeString(bytes, <<44>>), 0), 0),
                                     width), height), 0)
      framed(rasterData) ==
        Append(descriptor(header), 2) \o SubBlocks(rasterData, 0) \o <<0>> \o <<59>>
  IN framed(getLZWRaster(pixelData, 2))

\* Gif.#buildPixelData and Gif.#encodeToBytes, as Gif.createDataURL calls them
\* with callArgs = <<width, height, getPixel>>; the bytes and, for the reader
\* of the stream, the raster they frame and the encoder that wrote it
EncodeToBytes ==
  /\ lastOp = "pending"
  /\ \E pixelData \in {buildPixelData(callArgs[1], callArgs[2], callArgs[3])} :
       Returns("encodeToBytes", callArgs,
               << encodeToBytes(callArgs[1], callArgs[2], pixelData),
                  getLZWRaster(pixelData, 2),
                  LzwRaster(pixelData, 2) >>)

MaxSide == 3

\* the callbacks of the small images: all 0, all 1, alternating, scattered
PixelCallbacks(stride) ==
  { [a |-> 0, b |-> 0, c |-> 0, m |-> 2, stride |-> stride],
    [a |-> 0, b |-> 0, c |-> 1, m |-> 2, stride |-> stride],
    [a |-> 0, b |-> 1, c |-> 0, m |-> 4093, stride |-> stride],
    [a |-> 5, b |-> 11, c |-> 0, m |-> 4093, stride |-> stride] }

\* the images: every small one, and two of 36 pixels a row whose rasters are
\* 255 and 261 bytes long
GifImages ==
  UNION { { <<width, height, getPixel>> : getPixel \in PixelCallbacks(width) } :
            width \in 0..MaxSide, height \in 0..MaxSide }
    \cup { <<36, 47, [a |-> 5, b |-> 11, c |-> 0, m |-> 4093, stride |-> 36]>>,
           <<36, 48, [a |-> 5, b |-> 11, c |-> 0, m |-> 4093, stride |-> 36]>> }

GifInit == PendingInit(GifImages)

GifNext == EncodeToBytes

SpecGif == GifInit /\ [][GifNext]_vars

\* Gif.#getLZWRaster(pixelData, 2) alone, with callArgs = <<pixelData>>; the
\* encoder as it returns
GetLzwRaster ==
  /\ lastOp = "pending"
  /\ Returns("getLZWRaster", callArgs, LzwRaster(callArgs[1], 2))

MaxPixels == 7

LongLen == 60000

\* a pixel sequence that fills the dictionary: the parities of the residues
\* of i * i + i modulo 46337
LongPixelData ==
  [k \in 1..LongLen |-> ((((k - 1) % 46337) * ((k - 1) % 46337) + (k - 1)) % 46337) % 2] \o <<>>

\* every sequence of up to MaxPixels pixels, and the long one
LzwInit ==
  PendingInit({ <<pixelData>> :
                  pixelData \in UNION { [1..n -> {0, 1}] : n \in 0..MaxPixels }
                                  \cup {LongPixelData} })

LzwNext == GetLzwRaster

SpecLzw == LzwInit /\ [][LzwNext]_vars

----------------------------------------------------------------------------
(* PNG: the PNG encoder. A Uint8Array is the sequence of its bytes; an
   unsigned 32-bit number is the pair of its 16-bit halves. *)

\* a ^ b on 32-bit values
WordXor(a, b) == <<Xor(a[1], b[1]), Xor(a[2], b[2])>>

\* word >>> k for 0 < k < 16
WordShiftRight(word, k) ==
  <<word[1] \div Pow2(k), (word[2] \div Pow2(k)) + (word[1] % Pow2(k)) * Pow2(16 - k)>>

\* PNG.#writeUint32BigEndian: the four bytes written
writeUint32BigEndian(uintValue) ==
  <<uintValue[1] \div 256, uintValue[1] % 256, uintValue[2] \div 256, uintValue[2] % 256>>

\* PNG.#signature
signature == <<137, 80, 78, 71, 13, 10, 26, 10>>

RECURSIVE CrcTableLoop(_, _, _)
\* the inner loop of the initializer of PNG.#crcTable for bitIndex in
\* from..(to - 1), the range halved at each level of the recursion;
\* 0xedb88320 is the pair <<60856, 33568>>
CrcTableLoop(entryValue, from, to) ==
  IF to <= from \/ entryValue[1] < 0 THEN entryValue
  ELSE IF to - from = 1
  THEN IF entryValue[2] % 2 = 1
       THEN WordXor(<<60856, 33568>>, WordShiftRight(entryValue, 1))
       ELSE WordShiftRight(entryValue, 1)
  ELSE CrcTableLoop(CrcTableLoop(entryValue, from, (from + to) \div 2),
                    (from + to) \div 2, to)

\* PNG.#crcTable[index]
crcTable(index) == CrcTableLoop(<<0, index>>, 0, 8)

\* fault: the checksum starts from 0 instead of 0xffffffff
CrcStartZero == <<0, 0>>

\* the start value of crcValue in computeCrc32
CrcStart == <<65535, 65535>>

RECURSIVE CrcLoop(_, _, _, _)
\* the loop of PNG.#computeCrc32 for byteIndex in from..(to - 1); the range is
\* halved at each level of the recursion
CrcLoop(crcValue, data, from, to) ==
  IF to <= from \/ crcValue[1] < 0 THEN crcValue
  ELSE IF to - from = 1
  THEN WordXor(crcTable(Xor(crcValue[2] % 256, data[from + 1])),
               WordShiftRight(crcValue, 8))
  ELSE CrcLoop(CrcLoop(crcValue, data, from, (from + to) \div 2),
               data, (from + to) \div 2, to)

\* PNG.#computeCrc32
computeCrc32(data) == WordXor(CrcLoop(CrcStart, data, 0, Len(data)), <<65535, 65535>>)

RECURSIVE AdlerLoop(_, _, _, _)
\* the loop of PNG.#computeAdler32 for byteIndex in from..(to - 1), on the pair
\* <<sum1, sum2>>; the range is halved at each level of the recursion
AdlerLoop(sums, data, from, to) ==
  IF to <= from \/ sums[1] < 0 THEN sums
  ELSE IF to - from = 1
  THEN <<(sums[1] + data[from + 1]) % 65521,
         (sums[2] + ((sums[1] + data[from + 1]) % 65521)) % 65521>>
  ELSE AdlerLoop(AdlerLoop(sums, data, from, (from + to) \div 2),
                 data, (from + to) \div 2, to)

\* PNG.#computeAdler32: ((sum2 << 16) | sum1) >>> 0
computeAdler32(data) ==
  LET word(sums) == <<sums[2], sums[1]>>
  IN word(AdlerLoop(<<1, 0>>, data, 0, Len(data)))

\* PNG.#buildChunk
buildChunk(chunkType, chunkData) ==
  LET framed(combined) ==
        writeUint32BigEndian(Word(Len(chunkData))) \o combined
          \o writeUint32BigEndian(computeCrc32(combined))
  IN framed(chunkType \o chunkData)

\* PNG.#buildIendChunk
buildIendChunk == buildChunk(<<73, 69, 78, 68>>, <<>>)

\* PNG.#buildIhdrChunk
buildIhdrChunk(width, height, colorTypeCode) ==
  buildChunk(<<73, 72, 68, 82>>,
             writeUint32BigEndian(Word(width)) \o writeUint32BigEndian(Word(height))
               \o <<8, colorTypeCode, 0, 0, 0>>)

\* the value of a hexadecimal digit, -1 for any other character
HexDigit(char) ==
  IF char \in 48..57 THEN char - 48
  ELSE IF char \in 65..70 THEN char - 55
  ELSE IF char \in 97..102 THEN char - 87
  ELSE -1

\* parseInt of two characters, radix 16; -1 stands for NaN
ParseHexPair(first, second) ==
  IF HexDigit(first) = -1 THEN -1
  ELSE IF HexDigit(second) = -1 THEN HexDigit(first)
  ELSE 16 * HexDigit(first) + HexDigit(second)

\* PNG.#parseHexColor
parseHexColor(hex) ==
  LET parsed(hexDigits) ==
        IF Len(hexDigits) = 3
        THEN <<ParseHexPair(hexDigits[1], hexDigits[1]), ParseHexPair(hexDigits[2], hexDigits[2]),
               ParseHexPair(hexDigits[3], hexDigits[3])>>
        ELSE IF Len(hexDigits) = 6
        THEN <<ParseHexPair(hexDigits[1], hexDigits[2]), ParseHexPair(hexDigits[3], hexDigits[4]),
               ParseHexPair(hexDigits[5], hexDigits[6])>>
        ELSE <<0, 0, 0>>
  IN parsed(IF hex # <<>> /\ Head(hex) = 35 THEN Tail(hex) ELSE hex)

\* the store of a number into a Uint8Array element (NaN becomes 0)
ToUint8(value) == IF value < 0 THEN 0 ELSE value % 256

\* isDark of the grid object over a module matrix: matrix[r]?.[c] === 1
GridIsDark(matrix, r, c) ==
  r >= 0 /\ r < Len(matrix) /\ c >= 0 /\ c < Len(matrix[r + 1]) /\ matrix[r + 1][c + 1] = 1

\* PNG.#buildPixelsFromGrid; an absent colour is the empty tuple
buildPixelsFromGrid(qr, cellSize, margin, foregroundRgb, backgroundRgb) ==
  LET width == Len(qr) * cellSize + 2 * margin
      useRgbColors == foregroundRgb # <<>> /\ backgroundRgb # <<>>
      channels == IF useRgbColors THEN 3 ELSE 1
      isDarkModule(pixelX, pixelY) ==
        IF pixelX < margin \/ pixelX >= width - margin
             \/ pixelY < margin \/ pixelY >= width - margin
        THEN FALSE
        ELSE GridIsDark(qr, (pixelY - margin) \div cellSize, (pixelX - margin) \div cellSize)
      pixelByte(pixelX, pixelY, channel) ==
        IF useRgbColors
        THEN ToUint8(IF isDarkModule(pixelX, pixelY) THEN foregroundRgb[channel + 1]
                     ELSE backgroundRgb[channel + 1])
        ELSE IF isDarkModule(pixelX, pixelY) THEN 0 ELSE 255
  IN [width |-> width,
      height |-> width,
      data |-> [k \in 1..(width * width * channels) |->
                  pixelByte(((k - 1) \div channels) % width, ((k - 1) \div channels) \div width,
                            (k - 1) % channels)] \o <<>>,
      channels |-> channels]

\* PNG.#buildScanlines
buildScanlines(width, height, pixels, channels) ==
  LET bytesPerRow == width * channels
  IN [k \in 1..(height * (1 + bytesPerRow)) |->
        IF (k - 1) % (1 + bytesPerRow) = 0 THEN 0
        ELSE pixels[((k - 1) \div (1 + bytesPerRow)) * bytesPerRow
                      + ((k - 1) % (1 + bytesPerRow))]] \o <<>>

\* a stored block of raw deflate holding `bytes`
StoredBlock(bytes) ==
  <<1, Len(bytes) % 256, Len(bytes) \div 256,
    (65535 - Len(bytes)) % 256, (65535 - Len(bytes)) \div 256>> \o bytes

\* PNG.#deflateRawBytes: the stream comes from the platform's
\* CompressionStream; the outputs offered are two raw deflate streams of the
\* input, one stored block and an empty block before a stored block
deflateRawBytes(bytes) == { StoredBlock(bytes), <<0, 0, 0, 255, 255>> \o StoredBlock(bytes) }

\* PNG.#wrapZlibStream
wrapZlibStream(uncompressed, deflated) ==
  <<120, 156>> \o deflated \o writeUint32BigEndian(computeAdler32(uncompressed))

\* PNG.#encodeToPngBytes, given the bytes the platform's compressor returned
encodeToPngBytes(width, height, pixels, channels, compressedBytes) ==
  LET joined(idatChunk, colorTypeCode) ==
        signature \o buildIhdrChunk(width, height, colorTypeCode) \o idatChunk \o buildIendChunk
  IN joined(buildChunk(<<73, 68, 65, 84>>,
                       wrapZlibStream(buildScanlines(width, height, pixels, channels),
                                      compressedBytes)),
            IF channels = 3 THEN 2 ELSE 0)

\* PNG.createDataURL up to the PNG bytes, with callArgs = <<qr, cellSize,
\* margin, color, background>>; the bytes and, for the reader of the stream,
\* the scanlines they carry
EncodeToPngBytes ==
  /\ lastOp = "pending"
  /\ \E built \in {buildPixelsFromGrid(callArgs[1], callArgs[2], callArgs[3],
                                       IF callArgs[4] # <<>> THEN parseHexColor(callArgs[4])
                                       ELSE <<>>,
                                       IF callArgs[5] # <<>> THEN parseHexColor(callArgs[5])
                                       ELSE <<>>)} :
       \E scanlineBytes \in {buildScanlines(built.width, built.height, built.data,
                                            built.channels)} :
         \E compressedBytes \in deflateRawBytes(scanlineBytes) :
           Returns("encodeToPngBytes", callArgs,
                   << encodeToPngBytes(built.width, built.height, built.data, built.channels,
                                       compressedBytes),
                      scanlineBytes >>)

MaxModules == 2

\* every module matrix of 0 to MaxModules modules a side
PngGrids == UNION { [1..n -> [1..n -> {0, 1}]] : n \in 0..MaxModules }

\* colour choices: none, "#000" on "#fff", "#102030" on "a0B0c0", a colour
\* without a background
PngColours ==
  { << <<>>, <<>> >>,
    << <<35, 48, 48, 48>>, <<35, 102, 102, 102>> >>,
    << <<35, 49, 48, 50, 48, 51, 48>>, <<97, 48, 66, 48, 99, 48>> >>,
    << <<35, 48, 48, 48>>, <<>> >> }

PngInit ==
  PendingInit({ <<qr, cellSize, margin, colours[1], colours[2]>> :
                  qr \in PngGrids, cellSize \in 1..2, margin \in 0..1, colours \in PngColours })

PngNext == EncodeToPngBytes

SpecPng == PngInit /\ [][PngNext]_vars

----------------------------------------------------------------------------
(* Format.ascii: the text rendering. A string is the sequence of its
   characters' code points: 9608 the full block, 9600 the upper and 9604 the
   lower half block, 32 the space and 10 the line feed. The grid `qr` is the
   matrix of 0 and 1 behind getModuleCount and isDark; an omitted margin is
   <<>> and a given one <<margin>>; an omitted cellSize is 0. *)

\* the test around qr.isDark in both renderers: the pixel lies in the content
\* and its module is dark
AsciiDarkAt(qr, cellSize, contentMin, contentMax, pixelX, pixelY) ==
  /\ contentMin <= pixelX
  /\ pixelX < contentMax
  /\ contentMin <= pixelY
  /\ pixelY < contentMax
  /\ qr[(pixelY - contentMin) \div cellSize + 1][(pixelX - contentMin) \div cellSize + 1] = 1

\* String.substring(0, end) of the string text, for end below its length
Substring(text, end) == SubSeq(text, 1, IF end < 0 THEN 0 ELSE end)

\* Format.#halfASCII
halfASCII(qr, margin) ==
  LET cellSize == 1
      givenMargin == IF margin = <<>> THEN cellSize * 2 ELSE margin[1]
      canvasSize == Len(qr) * cellSize + givenMargin * 2
      contentMin == givenMargin
      contentMax == canvasSize - givenMargin
      blockChars(top, bottom) ==
        IF top /\ bottom THEN 32 ELSE IF top THEN 9604 ELSE IF bottom THEN 9600 ELSE 9608
      blockCharsLastLineNoMargin(top, bottom) == IF top THEN 32 ELSE 9600
      char(pixelX, pixelY) ==
        IF givenMargin < 1 /\ pixelY + 1 >= contentMax
        THEN blockCharsLastLineNoMargin(
               AsciiDarkAt(qr, cellSize, contentMin, contentMax, pixelX, pixelY),
               AsciiDarkAt(qr, cellSize, contentMin, contentMax, pixelX, pixelY + 1))
        ELSE blockChars(AsciiDarkAt(qr, cellSize, contentMin, contentMax, pixelX, pixelY),
                        AsciiDarkAt(qr, cellSize, contentMin, contentMax, pixelX, pixelY + 1))
      \* the output of the loops: a line of canvasSize characters and a line
      \* feed for every second pixelY
      asciiOutput ==
        [i \in 1..(((canvasSize + 1) \div 2) * (canvasSize + 1)) |->
           IF (i - 1) % (canvasSize + 1) = canvasSize THEN 10
           ELSE char((i - 1) % (canvasSize + 1), 2 * ((i - 1) \div (canvasSize + 1)))]
  IN IF canvasSize % 2 # 0 /\ givenMargin > 0
     THEN Substring(asciiOutput, Len(asciiOutput) - canvasSize - 1)
            \o [i \in 1..canvasSize |-> 9600]
     ELSE Substring(asciiOutput, Len(asciiOutput) - 1)

\* Format.ascii
ascii(qr, cellSize, margin) ==
  LET given == IF cellSize = 0 THEN 1 ELSE cellSize
      blockSize == given - 1
      givenMargin == IF margin = <<>> THEN blockSize * 2 ELSE margin[1]
      canvasSize == Len(qr) * blockSize + givenMargin * 2
      contentMin == givenMargin
      contentMax == canvasSize - givenMargin
      \* whiteBlock and blackBlock are 2 * blockSize characters each
      blockLength == 2 * blockSize
      lineLength == canvasSize * blockLength
      rowLineChar(column, pixelY) ==
        IF AsciiDarkAt(qr, blockSize, contentMin, contentMax, column \div blockLength, pixelY)
        THEN 32 ELSE 9608
      \* the output of the loops: every rowLineContent and its line feed
      \* blockSize times
      asciiOutput ==
        [i \in 1..(canvasSize * blockSize * (lineLength + 1)) |->
           IF (i - 1) % (lineLength + 1) = lineLength THEN 10
           ELSE rowLineChar((i - 1) % (lineLength + 1),
                            ((i - 1) \div (lineLength + 1)) \div blockSize)]
  IN IF given < 2 THEN halfASCII(qr, margin)
     ELSE Substring(asciiOutput, Len(asciiOutput) - 1)

\* Format.ascii with callArgs = <<qr, cellSize, margin>>
Ascii ==
  /\ lastOp = "pending"
  /\ Returns("ascii", callArgs, ascii(callArgs[1], callArgs[2], callArgs[3]))

MaxCellSize == 4

MaxAsciiModules == 2

\* every module matrix of 1 to MaxAsciiModules modules a side
AsciiGrids == UNION { [1..n -> [1..n -> {0, 1}]] : n \in 1..MaxAsciiModules }

AsciiInit ==
  PendingInit({ <<qr, cellSize, margin>> :
                  qr \in AsciiGrids, cellSize \in 0..MaxCellSize, margin \in {<<>>, <<0>>, <<1>>} })

AsciiNext == Ascii

SpecAscii == AsciiInit /\ [][AsciiNext]_vars

----------------------------------------------------------------------------
(* Build.buildMatrix as getBestMaskPattern (test = true) and the final
   makeImpl (test = false) call it, on the segment list of one addData *)

\* Build.buildMatrix with callArgs = <<typeNumber, errorCorrectionLevel,
\* (data, mode), test, maskPattern>> and no cached codewords
BuildMatrix ==
  /\ lastOp = "pending"
  /\ \E encoded \in {encode(callArgs[3].data, callArgs[3].mode)} :
       Returns("buildMatrix", callArgs,
               buildMatrix(callArgs[1], callArgs[2], <<encoded.segment>>, NullCache,
                           callArgs[4], callArgs[5]))

\* the versions built: one without and one with version blocks
BuildVersions == {1, 7}

BuildInit ==
  PendingInit({ <<typeNumber, errorCorrectionLevel, input, test, maskPattern>> :
                  typeNumber \in BuildVersions, errorCorrectionLevel \in 0..3,
                  input \in {[data |-> HelloWorld, mode |-> "Alphanumeric"]},
                  test \in BOOLEAN, maskPattern \in 0..7 })

BuildNext == BuildMatrix

SpecBuild == BuildInit /\ [][BuildNext]_vars

\* the test 'encodedDataCache reused when provided': Build.buildMatrix on the
\* segment of `first` without cached codewords and, if that build returned,
\* Build.buildMatrix on the segment list `others` with the codewords the first
\* build returned; callArgs = <<typeNumber, errorCorrectionLevel, first,
\* others, test, maskPattern>>
BuildTwice ==
  /\ lastOp = "pending"
  /\ \E result1 \in {buildMatrix(callArgs[1], callArgs[2], <<encode(callArgs[3].data,
                                                                    callArgs[3].mode).segment>>,
                                 NullCache, FALSE, 0)} :
       IF result1.error # "none"
       THEN Throws("buildMatrix", callArgs, result1.error)
       ELSE Returns("buildTwice", callArgs,
                    << result1,
                       buildMatrix(callArgs[1], callArgs[2],
                                   [i \in 1..Len(callArgs[4]) |->
                                      encode(callArgs[4][i].data, callArgs[4][i].mode).segment],
                                   result1.encodedDataCache, callArgs[5], callArgs[6]) >>)

\* the segment lists of the second build: none, one that encodes to other
\* codewords, one with a character its mode cannot encode, one too long for
\* the version
OtherSegmentLists ==
  { <<>>,
    <<[data |-> Abc, mode |-> "Byte"]>>,
    <<[data |-> Digits12a, mode |-> "Numeric"]>>,
    <<[data |-> HelloWorld, mode |-> "Alphanumeric"], [data |-> MidText, mode |-> "Byte"]>> }

CacheInit ==
  PendingInit({ <<typeNumber, errorCorrectionLevel, first, others, test, maskPattern>> :
                  typeNumber \in {1, 2}, errorCorrectionLevel \in 0..3,
                  first \in {[data |-> HelloWorld, mode |-> "Alphanumeric"],
                             [data |-> Abc, mode |-> "Byte"]},
                  others \in OtherSegmentLists, test \in BOOLEAN, maskPattern \in {0, 5} })

CacheNext == BuildTwice

SpecCache == CacheInit /\ [][CacheNext]_vars

----------------------------------------------------------------------------
(* A client of Math.Polynomial: the product of two polynomials made from
   coefficient lists *)

\* Polynomial.create(p, 0).multiply(Polynomial.create(q, 0)) with
\* callArgs = <<p, q>>
Multiply ==
  /\ lastOp = "pending"
  /\ \E product \in {PolyMultiply(Polynomial(callArgs[1], 0), Polynomial(callArgs[2], 0))} :
       IF product = <<>>
       THEN Throws("multiply", callArgs, "InvalidFieldElement")
       ELSE Returns("multiply", callArgs, product)

MaxCoefficients == 3

\* the coefficient lists: up to MaxCoefficients of 0, 2 and 255
CoefficientLists == UNION { [1..n -> {0, 2, 255}] : n \in 1..MaxCoefficients }

MultiplyInit == PendingInit(CoefficientLists \X CoefficientLists)

MultiplyNext == Multiply

SpecMultiply == MultiplyInit /\ [][MultiplyNext]_vars

----------------------------------------------------------------------------
(* A client of Util.getLengthInBits *)

\* the error Util.getLengthInBits throws where it returns no width: the
\* default of the switch its version range selects, or the final else
getLengthInBitsError(mode, typeNumber) ==
  IF typeNumber < 41 THEN "InvalidMode" ELSE "InvalidTypeNumber"

\* Util.getLengthInBits(mode, typeNumber) with callArgs = <<mode, typeNumber>>
GetLengthInBits ==
  /\ lastOp = "pending"
  /\ IF getLengthInBits(callArgs[1], callArgs[2]) = 0
     THEN Throws("getLengthInBits", callArgs, getLengthInBitsError(callArgs[1], callArgs[2]))
     ELSE Returns("getLengthInBits", callArgs, <<getLengthInBits(callArgs[1], callArgs[2])>>)

MaxTypeNumber == 42

\* the modes, with 0, 3, 16 and 99 that are none, and the versions from -2 on
LengthInit == PendingInit({0, 1, 2, 3, 4, 8, 16, 99} \X (-2..MaxTypeNumber))

LengthNext == GetLengthInBits

SpecLength == LengthInit /\ [][LengthNext]_vars

----------------------------------------------------------------------------
(* Properties *)

\* the encoded bit length of a segment list at version v: for each segment
\* 4 mode bits, the length field of v's width and the payload bits
EncodedBits(v, dataList) ==
  SumTo(LAMBDA i: 4 + getLengthInBits(dataList[i].mode, v) + WriteLength(dataList[i]),
        1, Len(dataList))

\* the data capacity in bits of the (v, level) block layout
CapacityBits(v, level) ==
  LET layout == getRSBlocks(v, level)
  IN 8 * SumTo(LAMBDA b: layout[b].dataCount, 1, Len(layout))

\* the versions 1..40 that hold a segment list
FittingVersions(level, dataList) ==
  { v \in 1..40 : EncodedBits(v, dataList) <= CapacityBits(v, level) }

\* the section-4.8 penalty of a scored grid: R1 + R2 + R3 and the colour
\* ratio rule R4 = 10 * floor(|100 * dark / N^2 - 50| / 5)
SectionPenalty(parts) ==
  parts.lostPoint
    + 10 * (Abs(100 * parts.darkCount - 50 * parts.moduleCount * parts.moduleCount)
              \div (5 * parts.moduleCount * parts.moduleCount))

\* C1: for a symbol constructed with a version v >= 1 whose segments can all
\* be written, the codeword builder, and make(), fail with CodeOverflow if
\* and only if the encoded bit length is strictly greater than
\* 8 * sum(dataCount) of the (v, level) layout; a bit length equal to the
\* capacity is accepted.
C1_OverflowIffBeyondCapacity ==
  (/\ lastOp \in {"createData", "make"}
   /\ createdTypeNumber >= 1
   /\ SegmentsError(dataSegmentList) = "none")
    => /\ (lastError = "CodeOverflow")
            <=> (EncodedBits(createdTypeNumber, dataSegmentList)
                   > CapacityBits(createdTypeNumber, errorLevel))
       /\ (lastError = "none")
            <=> (EncodedBits(createdTypeNumber, dataSegmentList)
                   <= CapacityBits(createdTypeNumber, errorLevel))

\* the codeword builder accepted a segment list filling the capacity exactly
C1_Witness ==
  /\ lastOp = "createData"
  /\ createdTypeNumber >= 1
  /\ lastError = "none"
  /\ returnedData # <<>>
  /\ Len(dataSegmentList) > 0
  /\ EncodedBits(createdTypeNumber, dataSegmentList)
       = CapacityBits(createdTypeNumber, errorLevel)

\* C2 as stated: for a symbol created with version 0, after any make() over
\* writable segments that some version holds, the symbol carries the smallest
\* version v in 1..40 that holds them, make() succeeded and
\* getModuleCount() = 17 + 4 * v.
C2_EveryMakeSelectsSmallest ==
  (/\ lastOp = "make"
   /\ createdTypeNumber = 0
   /\ SegmentsError(dataSegmentList) = "none"
   /\ FittingVersions(errorLevel, dataSegmentList) # {})
    => /\ currentTypeNumber \in FittingVersions(errorLevel, dataSegmentList)
       /\ \A v \in FittingVersions(errorLevel, dataSegmentList) : currentTypeNumber <= v
       /\ lastError = "none"
       /\ moduleCountValue = 17 + 4 * currentTypeNumber

\* C2: a make() that runs on a symbol whose version is still 0, over writable
\* segments that some version holds, selects the smallest version v in 1..40
\* that holds them, succeeds, and leaves getModuleCount() = 17 + 4 * v.
C2_SelectingMakeTakesSmallest ==
  [][(/\ lastOp' = "make"
      /\ createdTypeNumber = 0
      /\ currentTypeNumber < 1
      /\ SegmentsError(dataSegmentList) = "none"
      /\ FittingVersions(errorLevel, dataSegmentList) # {})
       => /\ currentTypeNumber' \in FittingVersions(errorLevel, dataSegmentList)
          /\ \A v \in FittingVersions(errorLevel, dataSegmentList) : currentTypeNumber' <= v
          /\ lastError' = "none"
          /\ moduleCountValue' = 17 + 4 * currentTypeNumber']_vars

\* the first successful make() of a version-0 symbol selected version 3
C2_Witness ==
  /\ lastOp = "make"
  /\ createdTypeNumber = 0
  /\ lastError = "none"
  /\ madeSegments = <<2>>
  /\ currentTypeNumber = 3
  /\ moduleCountValue = 29

\* C3: make() called right after a successful make() succeeds and leaves
\* getModuleCount() and every cell of the grid as they were.
C3_MakeIdempotent ==
  [][(lastOp = "make" /\ lastError = "none" /\ lastOp' = "make")
       => /\ lastError' = "none"
          /\ moduleCountValue' = moduleCountValue
          /\ moduleGrid' = moduleGrid]_vars

\* two successful make() calls over the same segments, the second one last
C3_Witness ==
  /\ lastOp = "make"
  /\ lastError = "none"
  /\ Len(madeSegments) = 2
  /\ madeSegments[1] = madeSegments[2]
  /\ Len(dataSegmentList) > 0

\* C4: for a symbol constructed with a version >= 1, the grid a successful
\* make() commits is the grid a fresh symbol of the same version and level
\* builds from all the segments added so far, and the cache holds their
\* codeword stream.
C4_MakeUsesAllSegments ==
  (lastOp = "make" /\ lastError = "none" /\ createdTypeNumber >= 1)
    => /\ moduleGrid
            = make(createdTypeNumber, errorLevel, dataSegmentList, NullCache).moduleGrid
       /\ encodedDataCache
            = createData(createdTypeNumber, errorLevel, dataSegmentList).data

\* a successful make() that follows a successful make() over fewer segments
C4_Witness ==
  /\ lastOp = "make"
  /\ lastError = "none"
  /\ createdTypeNumber >= 1
  /\ Len(madeSegments) = 2
  /\ madeSegments[1] < madeSegments[2]

\* C5 as stated: the mask pattern a successful make() commits has the lowest
\* section-4.8 penalty among the eight trial grids, and the lowest index
\* among the patterns of that penalty.
C5_CommittedMaskMinimisesPenalty ==
  (lastOp = "make" /\ lastError = "none")
    => \A m \in 0..7 :
         /\ SectionPenalty(trialParts[committedMask + 1]) <= SectionPenalty(trialParts[m + 1])
         /\ (SectionPenalty(trialParts[m + 1]) = SectionPenalty(trialParts[committedMask + 1])
               => committedMask <= m)

\* C6: once make() has succeeded the grid has N rows of N cells and every
\* cell is dark or light, none unassigned.
C6_NoUnassignedCell ==
  (madeSegments # <<>>)
    => /\ moduleCountValue = 17 + 4 * currentTypeNumber
       /\ Len(moduleGrid) = moduleCountValue
       /\ \A r \in 1..moduleCountValue :
            /\ Len(moduleGrid[r]) = moduleCountValue
            /\ \A c \in 1..moduleCountValue : moduleGrid[r][c] \in {0, 1}

\* a version-2 grid after a successful make(): its data region ends with
\* remainder cells no codeword covers
C6_Witness ==
  /\ lastOp = "make"
  /\ lastError = "none"
  /\ moduleCountValue = 25
  /\ Len(dataSegmentList) > 0

\* the canonical 7 x 7 finder template at offsets 0..6
FinderTemplate(rowOffset, colOffset) ==
  IF rowOffset \in {0, 6} \/ colOffset \in {0, 6} THEN 1
  ELSE IF rowOffset \in {1, 5} \/ colOffset \in {1, 5} THEN 0
  ELSE 1

\* C7: once make() has succeeded the three 7 x 7 regions anchored at (0, 0),
\* (N - 7, 0) and (0, N - 7) equal the finder template, and the cells of
\* row 6 and of column 6 with index 8..N-9 are dark exactly at even indices.
C7_FinderAndTimingKept ==
  (madeSegments # <<>>)
    => LET N == moduleCountValue IN
       /\ \A anchor \in {<<0, 0>>, <<N - 7, 0>>, <<0, N - 7>>} :
            \A rowOffset \in 0..6, colOffset \in 0..6 :
              Cell(moduleGrid, anchor[1] + rowOffset, anchor[2] + colOffset)
                = FinderTemplate(rowOffset, colOffset)
       /\ \A k \in 8..(N - 9) :
            /\ Cell(moduleGrid, 6, k) = BoolCell(k % 2 = 0)
            /\ Cell(moduleGrid, k, 6) = BoolCell(k % 2 = 0)

\* a version-7 grid after a successful make(): alignment patterns sit on the
\* timing lines and version information next to the finders
C7_Witness ==
  /\ lastOp = "make"
  /\ lastError = "none"
  /\ moduleCountValue = 45
  /\ currentTypeNumber = 7

\* C8: isDark(row, col) fails for every (row, col) while make() has not
\* succeeded; after a successful make() with side N it fails with OutOfRange
\* exactly when row < 0, row >= N, col < 0 or col >= N, and otherwise returns
\* true iff the cell is dark.
C8_IsDarkContract ==
  (lastOp = "isDark")
    => LET row == readArgs[1]
           col == readArgs[2]
           N == moduleCountValue
       IN IF madeSegments = <<>>
          THEN readResult \notin {"true", "false"} /\ lastError = readResult
          ELSE IF row < 0 \/ row >= N \/ col < 0 \/ col >= N
          THEN readResult = "OutOfRange" /\ lastError = "OutOfRange"
          ELSE /\ readResult = (IF Cell(moduleGrid, row, col) = 1 THEN "true" ELSE "false")
               /\ lastError = "none"

\* isDark read the dark corner (N - 1, 0) of a made symbol
C8_Witness ==
  /\ lastOp = "isDark"
  /\ madeSegments # <<>>
  /\ readArgs = <<moduleCountValue - 1, 0>>
  /\ readResult = "true"

\* the state create(1, "H"); addData("HELLO WORLD", "Alphanumeric"); make()
\* ends in: no make() succeeded before this one
AfterHelloWorldAt1H ==
  /\ createdTypeNumber = 1
  /\ errorLevel = QRError.H
  /\ dataSegmentList = <<[mode |-> MODE_ALPHA_NUM, data |-> HelloWorld]>>
  /\ lastOp = "make"
  /\ madeSegments \in {<<>>, <<1>>}

\* C9 as stated: create(1, "H"); addData("HELLO WORLD", "Alphanumeric");
\* make() completes without error and leaves moduleCount() = 21.
C9_HelloWorldFits1H ==
  AfterHelloWorldAt1H => (lastError = "none" /\ moduleCountValue = 21)

\* C9: create(1, "H"); addData("HELLO WORLD", "Alphanumeric"); make() fails
\* with CodeOverflow (74 bits against 72) and leaves moduleCount() = 0.
C9_HelloWorldOverflows1H ==
  AfterHelloWorldAt1H
    => /\ lastError = "CodeOverflow"
       /\ moduleCountValue = 0
       /\ moduleGrid = NullGrid
       /\ EncodedBits(1, dataSegmentList) = 74
       /\ CapacityBits(1, errorLevel) = 72

\* the sequence of C9 has run and make() threw
C9_Witness == AfterHelloWorldAt1H /\ lastError = "CodeOverflow"

\* C10 as stated: for a symbol created with version 0, make() never fails
\* with CodeOverflow.
C10_NoOverflowAtVersion0 ==
  (lastOp = "make" /\ createdTypeNumber = 0) => lastError # "CodeOverflow"

\* C10: for a symbol created with version 0, make() fails with CodeOverflow
\* exactly when the writable segments exceed the capacity of the version the
\* call works with: version 40 when versions 1..39 do not hold them, or the
\* version an earlier make() left.
C10_OverflowBeyondWorkingVersion ==
  (lastOp = "make" /\ createdTypeNumber = 0 /\ SegmentsError(dataSegmentList) = "none")
    => /\ currentTypeNumber >= 1
       /\ (lastError = "CodeOverflow")
            <=> (EncodedBits(currentTypeNumber, dataSegmentList)
                   > CapacityBits(currentTypeNumber, errorLevel))
       /\ (lastError = "CodeOverflow" /\ madeSegments = <<>>)
            => (currentTypeNumber = 40
                  /\ FittingVersions(errorLevel, dataSegmentList) = {})

\* the selecting make() of a version-0 symbol threw CodeOverflow at version 40
C10_Witness ==
  /\ lastOp = "make"
  /\ createdTypeNumber = 0
  /\ lastError = "CodeOverflow"
  /\ currentTypeNumber = 40
  /\ madeSegments = <<>>


\* C11 as stated: create(version, level) fails with BadErrorLevel for every
\* level string other than "L", "M", "Q", "H", and for those four it succeeds
\* with the internal indices L = 1, M = 0, Q = 3, H = 2.
C11_OnlyTheFourLevelsAccepted ==
  lastOp = "create"
    => IF callArgs[2] \in {"L", "M", "Q", "H"}
       THEN /\ lastError = "none"
            /\ errorLevel = (CASE callArgs[2] = "L" -> 1
                               [] callArgs[2] = "M" -> 0
                               [] callArgs[2] = "Q" -> 3
                               [] callArgs[2] = "H" -> 2)
       ELSE lastError = "BadErrorLevel"

\* C12 as stated: addData(text, mode) fails with BadMode for every mode name
\* other than "Numeric", "Alphanumeric", "Byte", "Kanji" (an empty mode
\* means "Byte"); when it fails, no segment is appended and the encoded-data
\* cache is left as it was.
C12_OnlyTheFourModesAccepted ==
  [][lastOp' = "addData"
       => /\ (callArgs'[1] \notin {"Numeric", "Alphanumeric", "Byte", "Kanji", ""})
               => lastError' = "BadMode"
          /\ (callArgs'[1] = "" /\ lastError' = "none")
               => dataSegmentList'[Len(dataSegmentList')].mode = MODE_8BIT_BYTE
          /\ (lastError' # "none")
               => UNCHANGED <<dataSegmentList, encodedDataCache>>]_vars
\* the 45 symbols of the alphanumeric mode: digits, capitals, space $ % * + - . / :
AlphanumericAlphabet == (48..57) \cup (65..90) \cup {32, 36, 37, 42, 43, 45, 46, 47, 58}

\* a Numeric segment with a character outside 0-9, or an Alphanumeric one
\* with a character outside the alphabet, at any position
HasForeignCharacter(segment) ==
  \/ segment.mode = MODE_NUMBER
       /\ \E i \in 1..Len(segment.data) : segment.data[i] \notin 48..57
  \/ segment.mode = MODE_ALPHA_NUM
       /\ \E i \in 1..Len(segment.data) : segment.data[i] \notin AlphanumericAlphabet

\* C13: addData accepts every Numeric and Alphanumeric text; a make() over a
\* list of Numeric and Alphanumeric segments one of which holds a character
\* outside its alphabet, wherever it sits, fails with BadCharacter.
C13_BadCharacterRaisedByMake ==
  [][/\ (lastOp' = "addData" /\ callArgs'[1] \in {"Numeric", "Alphanumeric"})
          => /\ lastError' = "none"
             /\ Len(dataSegmentList') = Len(dataSegmentList) + 1
     /\ (/\ lastOp' = "make"
         /\ \A i \in 1..Len(dataSegmentList) :
               dataSegmentList[i].mode \in {MODE_NUMBER, MODE_ALPHA_NUM}
         /\ \E i \in 1..Len(dataSegmentList) : HasForeignCharacter(dataSegmentList[i]))
          => lastError' = "BadCharacter"]_vars

\* a make() failed with BadCharacter on a list whose only foreign character
\* sits after the last full group of three digits ("1234a")
C13_Witness ==
  /\ lastOp = "make"
  /\ lastError = "BadCharacter"
  /\ Len(dataSegmentList) = 2
  /\ dataSegmentList[1].data = <<49, 50>>
  /\ dataSegmentList[2] = [mode |-> MODE_NUMBER, data |-> <<49, 50, 51, 52, 97>>]
SumOf(counts) == SumTo(LAMBDA i: counts[i], 1, Len(counts))

\* the place of the i-th codeword (from 0) of block b in a stream that lists,
\* column by column, the codeword of every block that has one in that column
ColumnOrderPlace(counts, b, i) ==
  Cardinality({ slot \in (0..i) \X (1..Len(counts)) :
                  /\ slot[1] < counts[slot[2]]
                  /\ (slot[1] < i \/ slot[2] <= b) })

\* C14: the stream createBytes returns has sum(totalCount) codewords; the data
\* codewords of the blocks, taken from the buffer in consecutive runs of
\* dataCount bytes, come first in column order, skipping exhausted blocks, and
\* the EC codewords of the blocks follow in column order.
C14_CreateBytesInterleaves ==
  lastOp = "createBytes" =>
    LET bytes == callArgs[1]
        rsBlocks == callArgs[2]
        dataCounts == [b \in 1..Len(rsBlocks) |-> rsBlocks[b].dataCount]
        errorCounts == [b \in 1..Len(rsBlocks) |-> rsBlocks[b].totalCount - rsBlocks[b].dataCount]
    IN /\ Len(callResult) = SumOf([b \in 1..Len(rsBlocks) |-> rsBlocks[b].totalCount])
       /\ \A b \in 1..Len(rsBlocks) :
            /\ \A i \in 0..(dataCounts[b] - 1) :
                 callResult[ColumnOrderPlace(dataCounts, b, i)]
                   = bytes[SumOf(SubSeq(dataCounts, 1, b - 1)) + i + 1]
            /\ \A i \in 0..(errorCounts[b] - 1) :
                 callResult[SumOf(dataCounts) + ColumnOrderPlace(errorCounts, b, i)]
                   = BlockCodewords(bytes, rsBlocks, b).error[i + 1]

\* createBytes ran on three blocks of 3, 1 and 2 data codewords over a buffer
\* of distinct bytes
C14_Witness ==
  /\ lastOp = "createBytes"
  /\ callArgs[2] = << [totalCount |-> 6, dataCount |-> 3], [totalCount |-> 3, dataCount |-> 1],
                      [totalCount |-> 4, dataCount |-> 2] >>
  /\ callArgs[1] = <<44, 81, 118, 155, 192, 229>>
  /\ Len(callResult) = 13
\* the product of two field elements
FieldProduct(a, b) ==
  IF a = 0 \/ b = 0 THEN 0 ELSE exponentTable[((logarithmTable[a] + logarithmTable[b]) % 255) + 1]

RECURSIVE ValueAt(_, _, _, _, _)
\* Horner's rule over the coefficients codewords[from..to] (high to low) at
\* the point x, from the accumulator `value`: for the whole sequence, the
\* value of its polynomial at x
ValueAt(codewords, x, value, from, to) ==
  IF to < from \/ value < 0 THEN value
  ELSE IF to = from THEN Xor(FieldProduct(value, x), codewords[from])
  ELSE ValueAt(codewords, x, ValueAt(codewords, x, value, from, (from + to) \div 2),
               ((from + to) \div 2) + 1, to)

\* C15: for every data block D, zero bytes included, and the generator of
\* degree n, the remainder of D shifted by n has degree below n; the block gets
\* exactly n EC codewords, the remainder left-padded with zeros, and D followed
\* by them is a multiple of the generator (it vanishes at the n roots).
C15_RemainderBelowGeneratorDegree ==
  lastOp = "mod" =>
    LET n == callArgs[2]
        remainder == callResult[1]
        errorCodewords == callResult[2]
    IN /\ Len(remainder) - 1 < n
       /\ Len(errorCodewords) = n
       /\ errorCodewords = [i \in 1..(n - Len(remainder)) |-> 0] \o remainder
       /\ \A i \in 0..(n - 1) :
            ValueAt(callArgs[1] \o errorCodewords, exponentTable[i + 1], 0,
                    1, Len(callArgs[1]) + n) = 0

\* the block <<0, 1, 255>>, with a leading zero byte, got its 4 EC codewords
C15_Witness ==
  /\ lastOp = "mod"
  /\ callArgs = << <<0, 1, 255>>, 4 >>
  /\ Len(callResult[2]) = 4

\* the all-zero block: the constructor yields the polynomial 0 whatever the shift
C15_WitnessZeroBlock ==
  /\ lastOp = "mod"
  /\ callArgs = << <<0, 0, 0>>, 7 >>
  /\ callResult = << <<0>>, <<0, 0, 0, 0, 0, 0, 0>> >>
\* C16: galoisExp(galoisLog(x)) = x for every x in 1..255,
\* galoisLog(galoisExp(n)) = n mod 255 for every n in 0..254, and galoisLog(0)
\* fails.
C16_FieldRoundTrip ==
  /\ (lastOp = "expOfLog" /\ callArgs[2] \in 1..255)
       => (lastError = "none" /\ callResult = <<callArgs[2]>>)
  /\ (lastOp = "logOfExp" /\ callArgs[2] \in 0..254)
       => (lastError = "none" /\ callResult = <<callArgs[2] % 255>>)
  /\ (lastOp = "galoisLog" /\ callArgs[2] = 0) => lastError = "InvalidFieldElement"

\* the exponent 0 went through galoisExp and back through galoisLog: the
\* element 1 stands in the exponent table at 0 and again at 255
C16_Witness ==
  /\ lastOp = "logOfExp"
  /\ callArgs[2] = 0
  /\ exponentTable[1] = exponentTable[256]
  /\ callResult = <<0>>
\* C17: after any sequence of put and putBit calls on a fresh buffer that
\* wrote the bits b0..b(n-1), lengthInBits is n, the byte array has ceil(n/8)
\* bytes, bit i is bit 7-(i mod 8) of byte floor(i/8), every unwritten bit
\* is 0, and getAt(i) is b_i below n and false from n on.
C17_BufferRepresentation ==
  LET n == Len(writtenBits)
      bytes == getBuffer(bitBuffer)
  IN /\ bitBuffer.lengthInBits = n
     /\ Len(bytes) = (n + 7) \div 8
     /\ \A k \in 1..Len(bytes) : bytes[k] \in 0..255
     /\ \A i \in 0..(8 * Len(bytes) - 1) :
          (bytes[(i \div 8) + 1] \div (2 ^ (7 - (i % 8)))) % 2
            = IF i < n THEN writtenBits[i + 1] ELSE 0
     /\ \A i \in 0..(n + 16) :
          getAt(bitBuffer, i) = (i < n /\ writtenBits[i + 1] = 1)

\* putBit and put have written 35 bits: three single bits, then the 32-bit
\* value 0x80010001, which ends in the middle of the fifth byte
C17_Witness ==
  /\ lastOp = "put"
  /\ callArgs = <<32769, 1, 32>>
  /\ SubSeq(writtenBits, 1, 3) = <<1, 0, 1>>
  /\ Len(writtenBits) = 35
  /\ getBuffer(bitBuffer) = <<176, 0, 32, 0, 32>>
RECURSIVE ReadSubBlocks(_, _, _)
\* what a reader of the stream collects from the sub-blocks that start at
\* `pos` and end at `limit`: the payloads in order, and -1 where a length
\* byte is 0 or runs past the limit
ReadSubBlocks(bytes, pos, limit) ==
  IF pos > limit THEN <<>>
  ELSE IF bytes[pos] < 1 \/ bytes[pos] > 255 \/ pos + bytes[pos] > limit THEN <<-1>>
  ELSE SubSeq(bytes, pos + 1, pos + bytes[pos])
         \o ReadSubBlocks(bytes, pos + bytes[pos] + 1, limit)

\* C18: the GIF stream starts with "GIF87a", carries the palette
\* 00 00 00 FF FF FF, ends with the block terminator 00 and the trailer 3B, and
\* between the minimum-code-size byte and the terminator holds sub-blocks of 1
\* to 255 bytes, each behind its length byte, whose payloads are the raster.
C18_GifFraming ==
  lastOp = "encodeToBytes" =>
    LET bytes == callResult[1]
    IN /\ SubSeq(bytes, 1, 6) = <<71, 73, 70, 56, 55, 97>>
       /\ SubSeq(bytes, 14, 19) = <<0, 0, 0, 255, 255, 255>>
       /\ bytes[30] = 2
       /\ bytes[Len(bytes) - 1] = 0
       /\ bytes[Len(bytes)] = 59
       /\ ReadSubBlocks(bytes, 31, Len(bytes) - 2) = callResult[2]

\* an image of 36 x 48 pixels whose raster of 261 bytes went into a sub-block
\* of 255 bytes and one of 6 bytes
C18_Witness ==
  /\ lastOp = "encodeToBytes"
  /\ callArgs[1] = 36
  /\ callArgs[2] = 48
  /\ Len(callResult[2]) = 261
  /\ callResult[1][31] = 255
  /\ callResult[1][287] = 6
\* the 32 bits of the generator 0xEDB88320 of CRC-32, lowest bit first
CrcGeneratorBits ==
  <<0, 0, 0, 0, 0, 1, 0, 0, 1, 1, 0, 0, 0, 0, 0, 1,
    0, 0, 0, 1, 1, 1, 0, 1, 1, 0, 1, 1, 0, 1, 1, 1>>

\* one bit of the message enters the 32-bit register (lowest bit first)
CrcShift(register, bit) ==
  IF (register[1] + bit) % 2 = 1
  THEN [k \in 1..32 |-> ((IF k < 32 THEN register[k + 1] ELSE 0) + CrcGeneratorBits[k]) % 2]
  ELSE [k \in 1..32 |-> IF k < 32 THEN register[k + 1] ELSE 0]

RECURSIVE CrcByte(_, _, _)
\* the register after the lowest bitCount bits of the byte have entered
CrcByte(register, byte, bitCount) ==
  IF bitCount = 0 THEN register
  ELSE CrcShift(CrcByte(register, byte, bitCount - 1), (byte \div (2 ^ (bitCount - 1))) % 2)

RECURSIVE CrcRegister(_, _, _, _)
\* the register after the bytes data[from..to], entered into `register`
CrcRegister(register, data, from, to) ==
  IF to < from \/ register[1] < 0 THEN register
  ELSE IF to = from THEN CrcByte(register, data[from], 8)
  ELSE CrcRegister(CrcRegister(register, data, from, (from + to) \div 2),
                   data, ((from + to) \div 2) + 1, to)

\* the four bytes, most significant first, of the CRC-32 of data
Crc32Bytes(data) ==
  LET register == CrcRegister([k \in 1..32 |-> 1], data, 1, Len(data))
      byteOf(first) ==
        (1 - register[first]) + 2 * (1 - register[first + 1]) + 4 * (1 - register[first + 2])
          + 8 * (1 - register[first + 3]) + 16 * (1 - register[first + 4])
          + 32 * (1 - register[first + 5]) + 64 * (1 - register[first + 6])
          + 128 * (1 - register[first + 7])
  IN <<byteOf(25), byteOf(17), byteOf(9), byteOf(1)>>

\* the four bytes, most significant first, of the Adler-32 of data
Adler32Bytes(data) ==
  LET low == (1 + SumOf(data)) % 65521
      high == (Len(data) + SumOf([i \in 1..Len(data) |-> (Len(data) - i + 1) * data[i]])) % 65521
  IN <<high \div 256, high % 256, low \div 256, low % 256>>

\* the bytes at `first` are a chunk of the given type with size data bytes:
\* length, type, data, CRC-32 over type and data
IsChunk(bytes, first, type, size) ==
  /\ Len(bytes) >= first + size + 11
  /\ SubSeq(bytes, first, first + 3)
       = <<0, size \div 65536, (size \div 256) % 256, size % 256>>
  /\ SubSeq(bytes, first + 4, first + 7) = type
  /\ SubSeq(bytes, first + size + 8, first + size + 11)
       = Crc32Bytes(SubSeq(bytes, first + 4, first + size + 7))

\* C19: the PNG stream is the signature followed by exactly the chunks IHDR
\* (13 data bytes), IDAT and IEND (no data), each framed as length, type,
\* data and CRC-32 over type and data; the IDAT data starts with 78 9C and
\* ends with the Adler-32 of the uncompressed scanlines.
C19_PngChunks ==
  lastOp = "encodeToPngBytes" =>
    LET bytes == callResult[1]
        size == Len(bytes) - 57
    IN /\ size >= 6
       /\ SubSeq(bytes, 1, 8) = <<137, 80, 78, 71, 13, 10, 26, 10>>
       /\ IsChunk(bytes, 9, <<73, 72, 68, 82>>, 13)
       /\ IsChunk(bytes, 34, <<73, 68, 65, 84>>, size)
       /\ IsChunk(bytes, 46 + size, <<73, 69, 78, 68>>, 0)
       /\ SubSeq(bytes, 42, 43) = <<120, 156>>
       /\ SubSeq(bytes, 38 + size, 41 + size) = Adler32Bytes(callResult[2])

\* a grid of two modules a side, cell size 2, margin 1, in colours: 6 x 6
\* pixels of 3 bytes, whose 114 scanline bytes came back from the compressor
\* behind an empty block
C19_Witness ==
  /\ lastOp = "encodeToPngBytes"
  /\ callArgs = << <<<<1, 0>>, <<0, 1>>>>, 2, 1,
                   <<35, 49, 48, 50, 48, 51, 48>>, <<97, 48, 66, 48, 99, 48>> >>
  /\ Len(callResult[2]) = 114
  /\ Len(callResult[1]) = 57 + 2 + 10 + 114 + 4
  /\ SubSeq(callResult[1], 17, 29) = <<0, 0, 0, 6, 0, 0, 0, 6, 8, 2, 0, 0, 0>>
\* none of the versions 1..39 holds the segment list
FitsNoneBelow40(level, dataList) ==
  \A v \in 1..39 : EncodedBits(v, dataList) > CapacityBits(v, level)

\* C20 as stated: when the writable segments of a version-0 symbol fit none of
\* the versions 1..39, the selecting make() commits to version 39.
C20_NoFitCommitsTo39 ==
  [][(/\ lastOp' = "make"
      /\ currentTypeNumber < 1
      /\ SegmentsError(dataSegmentList) = "none"
      /\ FitsNoneBelow40(errorLevel, dataSegmentList))
       => currentTypeNumber' = 39]_vars

\* C20: when the writable segments of a version-0 symbol fit none of the
\* versions 1..39, the selecting make() commits to version 40 without testing
\* it and hands 40 to the builder, which throws CodeOverflow exactly when
\* version 40 does not hold them either.
C20_NoFitCommitsTo40 ==
  [][(/\ lastOp' = "make"
      /\ currentTypeNumber < 1
      /\ SegmentsError(dataSegmentList) = "none"
      /\ FitsNoneBelow40(errorLevel, dataSegmentList))
       => /\ currentTypeNumber' = 40
          /\ (lastError' = "CodeOverflow")
               <=> (EncodedBits(40, dataSegmentList) > CapacityBits(40, errorLevel))]_vars

\* a version-0 symbol of level M whose one segment of 2954 bytes fits no
\* version went through make(): it carries version 40
C20_Witness ==
  /\ lastOp = "make"
  /\ createdTypeNumber = 0
  /\ errorLevel = 0
  /\ currentTypeNumber = 40
  /\ Len(dataSegmentList) = 1
  /\ SegmentsError(dataSegmentList) = "none"
  /\ FitsNoneBelow40(errorLevel, dataSegmentList)

\* the colour-ratio part of the score getLostPoint returns for the scored
\* grid, times moduleCount^2
RatioPartScaled(parts) ==
  getLostPoint(parts) - parts.lostPoint * parts.moduleCount * parts.moduleCount

\* C21 as stated: for every scored grid the colour-ratio part of the penalty
\* is 10 * floor(|100 * dark / N^2 - 50| / 5), a multiple of 10, so that the
\* penalty is an integer (both sides times N^2).
C21_RatioPartIsFlooredMultipleOfTen ==
  (lastOp = "make" /\ lastError = "none")
    => \A m \in 1..Len(trialParts) :
         LET cells == trialParts[m].moduleCount * trialParts[m].moduleCount
         IN RatioPartScaled(trialParts[m])
              = cells * 10 * (Abs(100 * trialParts[m].darkCount - 50 * cells) \div (5 * cells))

\* the single-character strings of the dictionary of the encoder `lzw`
LzwSeeds(lzw) == {key \in DOMAIN lzw.table.codeMap : Len(key) = 1}

\* C22 as stated: the dictionary is seeded with the pixel codes 0..1, the clear
\* code 2 and the end code 3; the first code written is the clear code 2 in 3
\* bits and the last code written is the end code 3.
C22_ClearCodeTwoEndCodeThree ==
  lastOp = "encodeToBytes" =>
    LET lzw == callResult[3]
        codes == lzw.stream.codes
    IN /\ LzwSeeds(lzw) = {<<i>> : i \in 0..3}
       /\ codes[1] = <<2, 3>>
       /\ codes[Len(codes)][1] = 3

\* C22: the dictionary is seeded with the codes 0..3 of the four colours of the
\* minimum code size 2, the clear code 4 and the end code 5, each string under
\* its own value; the first code written is the clear code 4 in 3 bits, the
\* last code written is the end code 5, and the first string the encoder adds
\* gets the code 6.
C22_ClearCodeFourEndCodeFive ==
  lastOp = "encodeToBytes" =>
    LET lzw == callResult[3]
        codes == lzw.stream.codes
    IN /\ LzwSeeds(lzw) = {<<i>> : i \in 0..5}
       /\ \A key \in LzwSeeds(lzw) : lzw.table.codeMap[key] = key[1]
       /\ \A key \in DOMAIN lzw.table.codeMap : Len(key) > 1 => lzw.table.codeMap[key] >= 6
       /\ codes[1] = <<4, 3>>
       /\ codes[Len(codes)][1] = 5
       /\ lzw.stream.error = "none"

\* an image of 3 x 3 pixels whose encoder added strings to the dictionary and
\* wrote the clear code 4 first and the end code 5 last
C22_Witness ==
  /\ lastOp = "encodeToBytes"
  /\ callArgs[1] = 3
  /\ callArgs[2] = 3
  /\ callResult[3].table.tableSize > 8
  /\ callResult[3].stream.codes[1] = <<4, 3>>
  /\ callResult[3].stream.codes[Len(callResult[3].stream.codes)][1] = 5

\* the lines of the text `text`: the runs between its line feeds
TextLines(text) ==
  LET feeds == <<0>> \o SelectSeq([i \in 1..Len(text) |-> IF text[i] = 10 THEN i ELSE 0],
                                  LAMBDA i : i > 0) \o <<Len(text) + 1>>
  IN [l \in 1..(Len(feeds) - 1) |-> SubSeq(text, feeds[l] + 1, feeds[l + 1] - 1)]

\* C23 as stated: for cellSize >= 2 and a margin of `margin` cells, the text
\* has cellSize lines for every row of modules and margin cells, each line
\* holds 2 * cellSize characters for every column, and the characters of a
\* dark module are full blocks, those of a light module or a margin cell
\* spaces.
C23_AsciiDarkAsFullBlocks ==
  (lastOp = "ascii" /\ callArgs[2] >= 2 /\ callArgs[3] # <<>>) =>
    LET qr == callArgs[1]
        cellSize == callArgs[2]
        margin == callArgs[3][1]
        cells == Len(qr) + 2 * margin
        lines == TextLines(callResult)
        dark(row, col) ==
          /\ row \in 1..Len(qr)
          /\ col \in 1..Len(qr)
          /\ qr[row][col] = 1
    IN /\ Len(lines) = cells * cellSize
       /\ \A l \in 1..Len(lines) :
            /\ Len(lines[l]) = cells * 2 * cellSize
            /\ \A k \in 1..Len(lines[l]) :
                 lines[l][k] = IF dark((l - 1) \div cellSize + 1 - margin,
                                       (k - 1) \div (2 * cellSize) + 1 - margin)
                               THEN 9608 ELSE 32

\* the number of bits of the binary numeral of value
BitLength(value) == CHOOSE k \in 0..31 : value < Pow2(k) /\ (k = 0 \/ Pow2(k - 1) <= value)

RECURSIVE Gf2Mod(_, _)
\* the remainder of the polynomial value modulo the polynomial generator, both
\* over GF(2) with bit i the coefficient of x^i
Gf2Mod(value, generator) ==
  IF BitLength(value) < BitLength(generator) THEN value
  ELSE Gf2Mod(Xor(value, generator * Pow2(BitLength(value) - BitLength(generator))), generator)

\* code is the systematic BCH code word of data: data above its `degree`
\* check bits, and a multiple of the generator
IsBchCode(code, data, degree, generator) ==
  code \div Pow2(degree) = data /\ Gf2Mod(code, generator) = 0

\* the number whose bit i is the cell at Place(i) of grid, for i in 0..(bits - 1)
BitsAt(grid, Place(_), bits) ==
  SumTo(LAMBDA i : Cell(grid, Place(i)[1], Place(i)[2]) * Pow2(i), 0, bits - 1)

\* C24: a trial build leaves the 30 format cells, the cell (N-8, 8) and, from
\* version 7 on, the 36 version cells light, and every cell the function
\* patterns assign is the same for all eight masks; a final build writes into
\* both format copies the 15 bits of the BCH code of (level << 3) | mask XOR
\* 101010000010010, into both version blocks the 18 bits of the BCH code of
\* the version, and makes the cell (N-8, 8) dark.
C24_TrialLightFinalBch ==
  (lastOp = "buildMatrix" /\ callResult.error = "none") =>
    LET typeNumber == callArgs[1]
        grid == callResult.moduleGrid
        moduleCount == callResult.moduleCountValue
        first(i) == TypeInfoFirst(i, moduleCount)
        second(i) == TypeInfoSecond(i, moduleCount)
        upper(i) == TypeNumberFirst(i, moduleCount)
        lower(i) == TypeNumberSecond(i, moduleCount)
        plain == FunctionPatterns(typeNumber, callArgs[2], TRUE, 0)
    IN IF callArgs[4]
       THEN /\ BitsAt(grid, first, 15) = 0
            /\ BitsAt(grid, second, 15) = 0
            /\ Cell(grid, moduleCount - 8, 8) = 0
            /\ typeNumber >= 7 => BitsAt(grid, upper, 18) = 0 /\ BitsAt(grid, lower, 18) = 0
            /\ \A r \in 0..(moduleCount - 1), c \in 0..(moduleCount - 1) :
                 Cell(plain, r, c) # -1 => Cell(grid, r, c) = Cell(plain, r, c)
       ELSE /\ IsBchCode(Xor(BitsAt(grid, first, 15), 21522), callArgs[2] * 8 + callArgs[5],
                         10, 1335)
            /\ BitsAt(grid, second, 15) = BitsAt(grid, first, 15)
            /\ Cell(grid, moduleCount - 8, 8) = 1
            /\ typeNumber >= 7 =>
                 /\ IsBchCode(BitsAt(grid, upper, 18), typeNumber, 12, 7973)
                 /\ BitsAt(grid, lower, 18) = BitsAt(grid, upper, 18)

\* a final build of version 7, level Q, mask 5, whose version blocks hold
\* 000111110010010100 and whose cell (37, 8) is dark
C24_Witness ==
  /\ lastOp = "buildMatrix"
  /\ callArgs[1] = 7
  /\ callArgs[2] = 3
  /\ ~callArgs[4]
  /\ callArgs[5] = 5
  /\ callResult.error = "none"
  /\ BitsAt(callResult.moduleGrid, LAMBDA i : TypeNumberFirst(i, 45), 18) = 31892
  /\ Cell(callResult.moduleGrid, 37, 8) = 1

\* the convolution of the coefficient lists p and q under XOR, a pair with a
\* zero coefficient contributing nothing
Convolution(p, q) ==
  [k \in 1..(Len(p) + Len(q) - 1) |->
     XorOver(LAMBDA i : FieldProduct(p[i], q[k - i + 1]),
             Max(1, k - Len(q) + 1), IF k < Len(p) THEN k ELSE Len(p))]

\* C25 as stated: multiply returns, for every pair of coefficient lists, the
\* polynomial of their GF(256) convolution, and does not fail when one of them
\* has a zero coefficient.
C25_MultiplyIsConvolution ==
  lastOp = "multiply" =>
    /\ lastError = "none"
    /\ callResult = Polynomial(Convolution(Polynomial(callArgs[1], 0),
                                           Polynomial(callArgs[2], 0)), 0)

\* the width the length-field table gives for the mode in the version
LengthFieldWidth(mode, version) ==
  LET range == IF version <= 9 THEN 1 ELSE IF version <= 26 THEN 2 ELSE 3
  IN CASE mode = 1 -> <<10, 12, 14>>[range]
       [] mode = 2 -> <<9, 11, 13>>[range]
       [] mode = 4 -> <<8, 16, 16>>[range]
       [] mode = 8 -> <<8, 10, 12>>[range]

\* C26 as stated: getLengthInBits returns the table width for the modes 1, 2,
\* 4, 8 in the versions 1..40, throws 'invalid type number' for a version
\* outside 1..40 with one of these modes, 'invalid mode' for another mode in
\* a version of 1..40, and one of the two errors when both are invalid.
C26_LengthTableAndErrors ==
  lastOp = "getLengthInBits" =>
    LET mode == callArgs[1]
        version == callArgs[2]
    IN IF version \in 1..40 /\ mode \in {1, 2, 4, 8}
       THEN lastError = "none" /\ callResult = <<LengthFieldWidth(mode, version)>>
       ELSE IF mode \in {1, 2, 4, 8} THEN lastError = "InvalidTypeNumber"
       ELSE IF version \in 1..40 THEN lastError = "InvalidMode"
       ELSE lastError \in {"InvalidMode", "InvalidTypeNumber"}

\* C27: a build that is passed cached codewords returns these codewords as
\* encodedDataCache and does not consult its segment list: it does not fail
\* where the segments cannot be encoded, and its grid is the grid a build from
\* the segments behind the cache makes with the same test flag and mask. A
\* build without cached codewords that returns, returns codewords, so that all
\* later builds of a make() find them.
C27_CachedCodewordsReused ==
  lastOp = "buildTwice" =>
    LET result1 == callResult[1]
        result2 == callResult[2]
        fresh == buildMatrix(callArgs[1], callArgs[2],
                             <<encode(callArgs[3].data, callArgs[3].mode).segment>>,
                             NullCache, callArgs[5], callArgs[6])
    IN /\ result1.encodedDataCache # NullCache
       /\ result2.error = "none"
       /\ result2.encodedDataCache = result1.encodedDataCache
       /\ result2.moduleGrid = fresh.moduleGrid

\* a second build of version 1-M on the codewords of HELLO WORLD, called with
\* segments that overflow the version, which returned the cached codewords
C27_Witness ==
  /\ lastOp = "buildTwice"
  /\ callArgs[1] = 1
  /\ callArgs[2] = 0
  /\ callArgs[3].data = HelloWorld
  /\ Len(callArgs[4]) = 2
  /\ createData(1, 0, [i \in 1..2 |-> encode(callArgs[4][i].data,
                                             callArgs[4][i].mode).segment]).error
       = "CodeOverflow"
  /\ callResult[2].error = "none"
  /\ Len(callResult[2].encodedDataCache) = 26
  /\ callResult[2].encodedDataCache = callResult[1].encodedDataCache

\* C28: once a symbol created with version 0 has a version v >= 1, no step
\* changes it; every later make() that succeeds leaves getModuleCount() at
\* 17 + 4 * v, and a make() whose segments exceed the capacity of v fails
\* (with CodeOverflow if all segments can be written) instead of selecting a
\* larger version.
C28_VersionFrozen ==
  [][(createdTypeNumber = 0 /\ currentTypeNumber >= 1)
       => /\ currentTypeNumber' = currentTypeNumber
          /\ (lastOp' = "make" /\ lastError' = "none")
               => moduleCountValue' = 17 + 4 * currentTypeNumber
          /\ (lastOp' = "make"
                /\ EncodedBits(currentTypeNumber, dataSegmentList)
                     > CapacityBits(currentTypeNumber, errorLevel))
               => /\ lastError' # "none"
                  /\ SegmentsError(dataSegmentList) = "none" => lastError' = "CodeOverflow"]_vars

\* a symbol created with version 0 whose first make() selected version 1 and
\* whose make() after a second addData failed with CodeOverflow at version 1,
\* although a larger version holds the segments
C28_Witness ==
  /\ lastOp = "make"
  /\ createdTypeNumber = 0
  /\ currentTypeNumber = 1
  /\ madeSegments = <<1>>
  /\ Len(dataSegmentList) = 2
  /\ lastError = "CodeOverflow"
  /\ FittingVersions(errorLevel, dataSegmentList) # {}
  /\ moduleCountValue = 21

\* C29: a make() that throws leaves getModuleCount() and the result of
\* isDark(row, col) for every row and column, those out of range included, as
\* they were before the call; the grid and the cache are those of the last
\* make() that returned.
C29_FailedMakeKeepsReadableState ==
  [][(lastOp' = "make" /\ lastError' # "none")
       => /\ moduleCountValue' = moduleCountValue
          /\ \A row \in -1..moduleCountValue, col \in -1..moduleCountValue :
               isDark(row, col)' = isDark(row, col)
          /\ moduleGrid' = moduleGrid
          /\ encodedDataCache' = encodedDataCache]_vars

\* a symbol of version 1 that was made, got a second segment and threw
\* CodeOverflow in its next make(), with the grid of 21 modules still readable
C29_Witness ==
  /\ lastOp = "make"
  /\ createdTypeNumber = 1
  /\ lastError = "CodeOverflow"
  /\ madeSegments = <<1>>
  /\ Len(dataSegmentList) = 2
  /\ moduleCountValue = 21
  /\ isDark(0, 0) = "true"

\* the size of the dictionary when the encoder writes the code at position k
\* of its history: six entries at the clear code and at the first string, one
\* more with every code after it, up to 4095
LzwSizeAt(k) == IF k < 2 THEN 6 ELSE IF 4 + k > 4095 THEN 4095 ELSE 4 + k

\* C30: for every pixel sequence over {0, 1} the bit packer takes every code
\* (each is below 2^width for the width it is written with), the width is 3
\* at the start and goes up by one after a code of the loop exactly if the
\* dictionary then holds 2^width entries and gets one more, the width stays
\* within 12 and the dictionary within 4095 entries.
C30_LzwCodeWidthSafe ==
  lastOp = "getLZWRaster" =>
    LET lzw == callResult
        codes == lzw.stream.codes
        loopCodes == Len(codes) - 3
    IN /\ lzw.stream.error = "none"
       /\ Len(codes) >= 3
       /\ \A k \in 1..Len(codes) : codes[k][1] < Pow2(codes[k][2]) /\ codes[k][2] <= 12
       /\ codes[1][2] = 3
       /\ codes[2][2] = 3
       /\ \A k \in 2..(Len(codes) - 1) :
            codes[k + 1][2] =
              IF k <= loopCodes + 1 /\ LzwSizeAt(k) < 4095 /\ LzwSizeAt(k) = Pow2(codes[k][2])
              THEN codes[k][2] + 1 ELSE codes[k][2]
       /\ lzw.currentBitLength = codes[Len(codes)][2]
       /\ lzw.table.tableSize = LzwSizeAt(loopCodes + 2)
       /\ lzw.table.tableSize <= 4095
       /\ Cardinality(DOMAIN lzw.table.codeMap) = lzw.table.tableSize

\* the long pixel sequence filled the dictionary with 4095 entries, the
\* encoder wrote codes after that, the last ones with 12 bits
C30_Witness ==
  /\ lastOp = "getLZWRaster"
  /\ Len(callArgs[1]) = LongLen
  /\ callResult.table.tableSize = 4095
  /\ Len(callResult.stream.codes) > 4095
  /\ callResult.stream.codes[Len(callResult.stream.codes)] = <<5, 12>>
  /\ callResult.stream.error = "none"
====
